---- MODULE Spec2Model ----
(***************************************************************************)
(* State-machine model of the send-money agent: the domain model           *)
(* (models.py), the limits engine (limits.py), the history store           *)
(* (history.py) and the session tool layer (tools.py).                     *)
(*                                                                         *)
(* Units.  Money is counted in cents (0.5 USD = 50): an amount passed in   *)
(* is a whole number of cents, and the floats the limits engine computes   *)
(* carry what the double differs from it.  The clock counts ticks,         *)
(* TicksPerDay ticks to the day; the tools and the limits engine hold a    *)
(* datetime as its tick number, the history store as the calendar value    *)
(* it writes and parses.                                                   *)
(***************************************************************************)
EXTENDS Integers, Sequences, FiniteSets, TLC

VARIABLES
    state,      \* tool_context.state: the session state bag (a dict)
    file,       \* the CSV file behind TransactionHistory
    now,        \* the wall clock read by datetime.now()
    executed,   \* history variable: the successful transfer_money returns;
                \* for the store alone, the records of the add_transaction
                \* calls that wrote to the file
    result,     \* the dict returned by the last tool call
    call,       \* the last tool call: its name and arguments
    tracker,    \* a LimitsTracker: its transactions and current_time
    limits,     \* a TransferLimits snapshot
    out,        \* the last call of the limits engine or of the history
                \* store: its name, arguments and outcome
    wrapper     \* one call of the patched generate_content_async

vars == <<state, file, now, executed, result, call, tracker, limits, out, wrapper>>
toolVars == <<state, file, now, executed, result, call>>
engineVars == <<tracker, limits, out, wrapper>>

-----------------------------------------------------------------------------
(* Bounds of the model                                                     *)

TicksPerDay == 2
MaxTime == 1
MaxTransfers == 2
MaxTxns == 2
MaxAppends == 2
\* rate-limit errors the wrapped model call raises within one call
MaxAttempts == 2
\* responses one attempt of the wrapped model call produces
MaxResponses == 2

-----------------------------------------------------------------------------
(* models.py: supported values and limits                                  *)

SUPPORTED_COUNTRIES ==
    << "México", "Guatemala", "Honduras", "El Salvador",
       "República Dominicana", "Colombia" >>

PAYMENT_METHODS == << "credit_card", "debit_card", "bank_transfer" >>
DELIVERY_METHODS == << "digital_wallet", "bank_account" >>

MIN_AMOUNT == 50
DAILY_LIMIT == 150000
MONTHLY_LIMIT == 300000
SEMESTER_LIMIT == 1800000

\* x in list
InList(x, list) == \E i \in 1..Len(list) : list[i] = x

\* timedelta(days=n)
Days(n) == n * TicksPerDay

-----------------------------------------------------------------------------
(* Dicts: a dict is a function whose domain is the set of keys present     *)

EmptyDict == [k \in {} |-> 0]
Has(d, k) == k \in DOMAIN d
Put(d, k, v) == [x \in DOMAIN d \cup {k} |-> IF x = k THEN v ELSE d[x]]

-----------------------------------------------------------------------------
(* str.lower(), on texts of ASCII characters and the accented letters of   *)
(* Spanish                                                                 *)

LowerChar ==
    "A" :> "a" @@ "B" :> "b" @@ "C" :> "c" @@ "D" :> "d" @@ "E" :> "e" @@
    "F" :> "f" @@ "G" :> "g" @@ "H" :> "h" @@ "I" :> "i" @@ "J" :> "j" @@
    "K" :> "k" @@ "L" :> "l" @@ "M" :> "m" @@ "N" :> "n" @@ "O" :> "o" @@
    "P" :> "p" @@ "Q" :> "q" @@ "R" :> "r" @@ "S" :> "s" @@ "T" :> "t" @@
    "U" :> "u" @@ "V" :> "v" @@ "W" :> "w" @@ "X" :> "x" @@ "Y" :> "y" @@
    "Z" :> "z" @@ "Á" :> "á" @@ "É" :> "é" @@ "Í" :> "í" @@ "Ó" :> "ó" @@
    "Ú" :> "ú" @@ "Ñ" :> "ñ" @@ "Ü" :> "ü"

RECURSIVE LowerText(_)
LowerText(s) ==
    IF s = "" THEN ""
    ELSE (IF Head(s) \in DOMAIN LowerChar THEN LowerChar[Head(s)]
          ELSE Head(s)) \o LowerText(Tail(s))

\* the texts that are lowered time and again, lowered once
Lowered ==
    [s \in {SUPPORTED_COUNTRIES[i] : i \in DOMAIN SUPPORTED_COUNTRIES}
            \cup {"colombia", "COLOMBIA", "France", "John", "Matthews",
                  "john", "MATTHEWS", "Maria", "Saavedra", "Juan", "Perez",
                  "Ana", "Gomez"} |-> LowerText(s)]

\* s.lower()
Lower(s) == IF s \in DOMAIN Lowered THEN Lowered[s] ELSE LowerText(s)

-----------------------------------------------------------------------------
(* Error messages, kept as structured values: the kind is the fixed text   *)
(* of the message, the other fields are the values formatted into it.      *)

\* tools.py:40
ErrCountryNotSupported(c) ==
    [kind |-> "country_not_supported", country |-> c,
     supported |-> SUPPORTED_COUNTRIES]
\* tools.py:67  "Amount must be at least ${MIN_AMOUNT} USD"
ErrAmountAtLeast == [kind |-> "amount_at_least", min |-> MIN_AMOUNT]
\* tools.py:115
ErrBothNames == [kind |-> "both_names_required"]
\* tools.py:151
ErrPaymentNotSupported(m) ==
    [kind |-> "payment_not_supported", method |-> m,
     supported |-> PAYMENT_METHODS]
\* tools.py:186
ErrDeliveryNotSupported(m) ==
    [kind |-> "delivery_not_supported", method |-> m,
     supported |-> DELIVERY_METHODS]

\* pydantic's message for a ValueError raised by a field validator:
\* "Value error, " followed by the text of the exception
ValueError(e) == [kind |-> "value_error", msg |-> e]
\* pydantic's message for Field(min_length=1)
ErrStringTooShort == [kind |-> "string_too_short", min_length |-> 1]
\* pydantic's message for Field(gt=0)
ErrGreaterThan == [kind |-> "greater_than", gt |-> 0]

-----------------------------------------------------------------------------
(* models.py: Beneficiary and Transaction validate at construction         *)

\* Beneficiary(firstname, lastname): the errors of a failed construction,
\* in field order; <<>> when construction succeeds
BeneficiaryErrors(firstname, lastname) ==
    (IF firstname = "" THEN <<ErrStringTooShort>> ELSE <<>>)
    \o (IF lastname = "" THEN <<ErrStringTooShort>> ELSE <<>>)

full_name(firstname, lastname) == <<firstname, " ", lastname>>

validate_country(v) ==
    IF ~InList(v, SUPPORTED_COUNTRIES)
    THEN <<ValueError([kind |-> "country_must_be_one_of",
                       supported |-> SUPPORTED_COUNTRIES])>>
    ELSE <<>>

\* validate_amount refusing the two bounds themselves
validate_amount_exclusive(v) ==
    IF ~(v > 0) THEN <<ErrGreaterThan>>
    ELSE IF v <= MIN_AMOUNT
    THEN <<ValueError([kind |-> "amount_at_least", min |-> MIN_AMOUNT])>>
    ELSE IF v >= DAILY_LIMIT
    THEN <<ValueError([kind |-> "amount_cannot_exceed", max |-> DAILY_LIMIT])>>
    ELSE <<>>

validate_amount(v) ==
    IF ~(v > 0) THEN <<ErrGreaterThan>>
    ELSE IF v < MIN_AMOUNT
    THEN <<ValueError([kind |-> "amount_at_least", min |-> MIN_AMOUNT])>>
    ELSE IF v > DAILY_LIMIT
    THEN <<ValueError([kind |-> "amount_cannot_exceed", max |-> DAILY_LIMIT])>>
    ELSE <<>>

validate_payment_method(v) ==
    IF ~InList(v, PAYMENT_METHODS)
    THEN <<ValueError([kind |-> "payment_must_be_one_of",
                       supported |-> PAYMENT_METHODS])>>
    ELSE <<>>

validate_delivery_method(v) ==
    IF ~InList(v, DELIVERY_METHODS)
    THEN <<ValueError([kind |-> "delivery_must_be_one_of",
                       supported |-> DELIVERY_METHODS])>>
    ELSE <<>>

\* Transaction(beneficiary, country, amount, payment_method, delivery_method,
\* timestamp) with a valid beneficiary: the errors of a failed construction,
\* in field order; <<>> when construction succeeds
TransactionErrors(country, amount, payment_method, delivery_method) ==
    validate_country(country)
    \o validate_amount(amount)
    \o validate_payment_method(payment_method)
    \o validate_delivery_method(delivery_method)

\* Beneficiary(firstname=, lastname=): the object, or the ValidationError
Beneficiary(firstname, lastname) ==
    IF BeneficiaryErrors(firstname, lastname) # <<>>
    THEN [raises |-> "ValidationError",
          errors |-> BeneficiaryErrors(firstname, lastname)]
    ELSE [firstname |-> firstname, lastname |-> lastname]

\* Transaction(beneficiary=, country=, amount=, payment_method=,
\* delivery_method=, timestamp=): the object, or the ValidationError
Transaction(beneficiary, country, amount, payment_method, delivery_method, timestamp) ==
    IF TransactionErrors(country, amount, payment_method, delivery_method) # <<>>
    THEN [raises |-> "ValidationError",
          errors |-> TransactionErrors(country, amount, payment_method,
                                       delivery_method)]
    ELSE [beneficiary |-> beneficiary, country |-> country, amount |-> amount,
          payment_method |-> payment_method,
          delivery_method |-> delivery_method, timestamp |-> timestamp,
          confirmation_code |-> <<>>]

-----------------------------------------------------------------------------
(* Texts: what str(), isoformat(), float() and datetime.fromisoformat() do *)
(* with the values that pass through the CSV file.  A str is a TLA+        *)
(* string; text positions count from 1.                                    *)

\* the element of a set of one: The({e(v) : v \in {x}}) is e(x), with x
\* worked out once
The(S) == CHOOSE v \in S : TRUE

Digit ==
    "0" :> 0 @@ "1" :> 1 @@ "2" :> 2 @@ "3" :> 3 @@ "4" :> 4 @@
    "5" :> 5 @@ "6" :> 6 @@ "7" :> 7 @@ "8" :> 8 @@ "9" :> 9

isdigit(ch) == ch \in DOMAIN Digit

\* the character at position p; "" at and past the end of the text, where
\* the C string holds its terminating NUL
Char(text, p) ==
    IF 1 <= p /\ p <= Len(text) THEN SubSeq(text, p, p) ELSE ""

\* the position of the first character of text, from position p on, that
\* lies in chars; Len(text) + 1 when there is none
RECURSIVE Find(_, _, _)
Find(text, p, chars) ==
    IF p > Len(text) \/ Char(text, p) \in chars THEN p
    ELSE Find(text, p + 1, chars)

\* the position of the first character, from position p on, that is no
\* digit
RECURSIVE SkipDigits(_, _)
SkipDigits(text, p) ==
    IF isdigit(Char(text, p)) THEN SkipDigits(text, p + 1) ELSE p

\* '%0<width>d'
RECURSIVE ZeroPad(_, _)
ZeroPad(text, width) ==
    IF Len(text) >= width THEN text ELSE ZeroPad("0" \o text, width)

\* the letters of the texts here that take two bytes in UTF-8; every other
\* character takes one
TwoByteChars ==
    {"á", "é", "í", "ó", "ú", "ñ", "ü", "Á", "É", "Í", "Ó", "Ú", "Ñ", "Ü"}

\* len(text.encode("utf-8"))
RECURSIVE Bytes(_)
Bytes(text) ==
    IF text = "" THEN 0
    ELSE (IF Head(text) \in TwoByteChars THEN 2 ELSE 1) + Bytes(Tail(text))

\* the first n bytes of the UTF-8 encoding of text, n < Bytes(text): the
\* whole characters among them, and whether the last byte is the first
\* half of a two-byte character
RECURSIVE BytePrefix(_, _)
BytePrefix(text, n) ==
    IF n = 0 THEN [text |-> "", torn |-> FALSE]
    ELSE IF Head(text) \in TwoByteChars /\ n = 1
    THEN [text |-> "", torn |-> TRUE]
    ELSE LET rest == BytePrefix(Tail(text),
                                n - (IF Head(text) \in TwoByteChars
                                     THEN 2 ELSE 1))
         IN  [rest EXCEPT !.text = Head(text) \o @]

\* str(amount) of the float amount, a whole number of cents below 10^16:
\* the shortest decimal that reads back as the same float
str(amount) ==
    LET a == IF amount < 0 THEN 0 - amount ELSE amount
        cents == a % 100
    IN  (IF amount < 0 THEN "-" ELSE "") \o ToString(a \div 100) \o "."
        \o (IF cents % 10 = 0 THEN ToString(cents \div 10)
            ELSE ZeroPad(ToString(cents), 2))

\* the decimal number a text of digits spells
RECURSIVE Decimal(_, _)
Decimal(text, var) ==
    IF text = "" THEN var
    ELSE Decimal(Tail(text), 10 * var + Digit[Head(text)])

\* float(text) succeeds: text is [sign] digits [. [digits]] or
\* [sign] . digits.  (float() also reads exponents, inf, nan, digits
\* grouped by '_' and blanks around the number; no text written to the
\* file here spells one of these.)
IsFloatText(text) ==
    LET start == IF Char(text, 1) \in {"+", "-"} THEN 2 ELSE 1
        dot == SkipDigits(text, start)
        end == IF Char(text, dot) = "." THEN SkipDigits(text, dot + 1)
               ELSE dot
    IN  /\ end = Len(text) + 1
        /\ (dot > start \/ end > dot + 1)

\* float(text) in cents, for a text that float() reads: the digits past
\* the second decimal are dropped (no amount here has any)
FloatCents(text) ==
    LET start == IF Char(text, 1) \in {"+", "-"} THEN 2 ELSE 1
        dot == SkipDigits(text, start)
        whole == Decimal(SubSeq(text, start, dot - 1), 0)
        cents == Decimal(SubSeq(text \o "00", dot + 1, dot + 2), 0)
        value == 100 * whole + (IF dot > Len(text) THEN 0 ELSE cents)
    IN  IF Char(text, 1) = "-" THEN 0 - value ELSE value

-----------------------------------------------------------------------------
(* datetime.  A datetime is written as its distance from the epoch         *)
(* 2025-01-01T00:00:00, [days, seconds, microseconds] as in a timedelta,   *)
(* and its tzinfo: <<>> for a naive datetime, <<offset>> for an aware one, *)
(* the offset being [sign, seconds, microseconds].  The clock of the model *)
(* reads whole ticks: tick n is the naive datetime at(n).                  *)

TickSeconds == 86400 \div TicksPerDay

\* days from 1970-01-01 to the epoch 2025-01-01
EpochDay == 20089

\* the naive datetime at tick n
at(n) ==
    [days |-> n \div TicksPerDay,
     seconds |-> (n % TicksPerDay) * TickSeconds,
     microseconds |-> 0, tzinfo |-> <<>>]

\* the tick of a naive datetime on a whole tick
TickOf(dt) == dt.days * TicksPerDay + dt.seconds \div TickSeconds

\* the proleptic Gregorian date of a day number counted from the epoch
Civil(days) ==
    LET z == days + EpochDay + 719468
        era == z \div 146097
        doe == z - era * 146097
        yoe == (doe - doe \div 1460 + doe \div 36524 - doe \div 146096)
               \div 365
        doy == doe - (365 * yoe + yoe \div 4 - yoe \div 100)
        mp == (5 * doy + 2) \div 153
        month == IF mp < 10 THEN mp + 3 ELSE mp - 9
    IN  [year |-> yoe + era * 400 + (IF month <= 2 THEN 1 ELSE 0),
         month |-> month,
         day |-> doy - (153 * mp + 2) \div 5 + 1]

\* the day number, counted from the epoch, of a Gregorian date
DaysFromCivil(year, month, day) ==
    LET y == IF month <= 2 THEN year - 1 ELSE year
        era == y \div 400
        yoe == y - era * 400
        mp == IF month > 2 THEN month - 3 ELSE month + 9
        doy == (153 * mp + 2) \div 5 + day - 1
        doe == yoe * 365 + yoe \div 4 - yoe \div 100 + doy
    IN  era * 146097 + doe - 719468 - EpochDay

days_in_month(year, month) ==
    IF month = 2
    THEN (IF year % 4 = 0 /\ (year % 100 # 0 \/ year % 400 = 0)
          THEN 29 ELSE 28)
    ELSE IF month \in {4, 6, 9, 11} THEN 30 ELSE 31

\* 'HH:MM:SS' of a number of seconds, with '.ffffff' when microseconds is
\* not 0
FormatTime(seconds, microseconds) ==
    ZeroPad(ToString(seconds \div 3600), 2) \o ":"
    \o ZeroPad(ToString((seconds % 3600) \div 60), 2) \o ":"
    \o ZeroPad(ToString(seconds % 60), 2)
    \o (IF microseconds = 0 THEN ""
        ELSE "." \o ZeroPad(ToString(microseconds), 6))

\* the utcoffset part of isoformat(): '+HH:MM', with the seconds and the
\* microseconds when they are not 0
FormatOffset(off) ==
    (IF off.sign < 0 THEN "-" ELSE "+")
    \o ZeroPad(ToString(off.seconds \div 3600), 2) \o ":"
    \o ZeroPad(ToString((off.seconds % 3600) \div 60), 2)
    \o (IF off.seconds % 60 = 0 /\ off.microseconds = 0 THEN ""
        ELSE ":" \o ZeroPad(ToString(off.seconds % 60), 2))
    \o (IF off.microseconds = 0 THEN ""
        ELSE "." \o ZeroPad(ToString(off.microseconds), 6))

\* datetime.isoformat()
isoformat(dt) ==
    LET date == Civil(dt.days)
    IN  ZeroPad(ToString(date.year), 4) \o "-"
        \o ZeroPad(ToString(date.month), 2) \o "-"
        \o ZeroPad(ToString(date.day), 2) \o "T"
        \o FormatTime(dt.seconds, dt.microseconds)
        \o (IF dt.tzinfo = <<>> THEN "" ELSE FormatOffset(dt.tzinfo[1]))

\* parse_digits(ptr, &var, num_digits): the number spelled by the
\* num_digits characters from position p on, -1 when one is no digit
RECURSIVE parse_digits(_, _, _, _)
parse_digits(text, p, num_digits, var) ==
    IF num_digits = 0 THEN var
    ELSE IF ~isdigit(Char(text, p)) THEN 0 - 1
    ELSE parse_digits(text, p + 1, num_digits - 1,
                      10 * var + Digit[Char(text, p)])

\* the fractional part of parse_hh_mm_ss_ff: up to six digits from p on,
\* scaled to microseconds; further digits are passed over; rv is 1 when
\* the text goes on after them
parse_ff(text, p, p_end) ==
    LET len_remains == p_end - p
        to_parse == IF len_remains >= 6 THEN 6 ELSE len_remains
        digits == parse_digits(text, p, to_parse, 0)
        correction == <<100000, 10000, 1000, 100, 10, 1>>
        stop == SkipDigits(text, p + to_parse)
    IN  IF digits < 0 THEN [rv |-> 0 - 3]
        ELSE [rv |-> IF Char(text, stop) # "" THEN 1 ELSE 0,
              microsecond |-> digits * correction[to_parse]]

\* the loop of parse_hh_mm_ss_ff over hour, minute and second: i fields
\* are read, vals holds them.  rv 2 stands for leaving the loop towards
\* the fractional part at position p
RECURSIVE parse_hh_mm_ss(_, _, _, _, _, _)
parse_hh_mm_ss(text, p, p_end, i, has_separator, vals) ==
    IF i = 3 THEN [rv |-> 2, p |-> p, vals |-> vals]
    ELSE
      LET val == parse_digits(text, p, 2, 0)
          c == Char(text, p + 2)
          separator == IF i = 0 THEN c = ":" ELSE has_separator
          read == Append(vals, val)
      IN  IF val < 0 THEN [rv |-> 0 - 3]
          ELSE IF p + 3 >= p_end
          THEN [rv |-> IF c # "" THEN 1 ELSE 0, vals |-> read]
          ELSE IF separator /\ c = ":"
          THEN parse_hh_mm_ss(text, p + 3, p_end, i + 1, separator, read)
          ELSE IF c \in {".", ","}
          THEN [rv |-> 2, p |-> p + 3, vals |-> read]
          ELSE IF ~separator
          THEN parse_hh_mm_ss(text, p + 2, p_end, i + 1, separator, read)
          ELSE [rv |-> 0 - 4]

\* parse_hh_mm_ss_ff(tstr, tstr_end): the part of text from p up to, not
\* including, p_end
parse_hh_mm_ss_ff(text, p, p_end) ==
    The({ LET vals == r.vals \o <<0, 0, 0>>
              hms == [hour |-> vals[1], minute |-> vals[2],
                      second |-> vals[3]]
          IN  IF r.rv < 0 THEN [rv |-> r.rv]
              ELSE IF r.rv < 2
              THEN [rv |-> r.rv, microsecond |-> 0] @@ hms
              ELSE The({ IF ff.rv < 0 THEN [rv |-> ff.rv] ELSE ff @@ hms :
                         ff \in {parse_ff(text, r.p, p_end)} }) :
          r \in {parse_hh_mm_ss(text, p, p_end, 0, TRUE, <<>>)} })

\* parse_isoformat_time(dtstr, dtlen): the time and the offset in the part
\* of text from p on; rv 1 when there is an offset, negative on an error
parse_isoformat_time(text, p) ==
    The({ LET p_end == Len(text) + 1
              tzsign == IF Char(text, tzinfo_pos) = "-" THEN 0 - 1 ELSE 1
          IN  The({
              IF time.rv < 0 THEN [rv |-> time.rv]
              ELSE IF tzinfo_pos >= p_end
              THEN (IF time.rv = 1 THEN [rv |-> 0 - 5]
                    ELSE [time EXCEPT !.rv = 0])
              ELSE IF Char(text, tzinfo_pos) = "Z"
              THEN (IF Char(text, tzinfo_pos + 1) # "" THEN [rv |-> 0 - 5]
                    ELSE [time EXCEPT !.rv = 1]
                         @@ [tzsign |-> 1, tzoffset |-> 0,
                             tzmicrosecond |-> 0])
              ELSE The({
                  IF tz.rv # 0
                  THEN [rv |-> IF tz.rv < 0 THEN tz.rv ELSE 0 - 5]
                  ELSE [time EXCEPT !.rv = 1]
                       @@ [tzsign |-> tzsign,
                           tzoffset |-> tz.hour * 3600 + tz.minute * 60
                                        + tz.second,
                           tzmicrosecond |-> tz.microsecond] :
                  tz \in {parse_hh_mm_ss_ff(text, tzinfo_pos + 1, p_end)} }) :
              time \in {parse_hh_mm_ss_ff(text, p, tzinfo_pos)} }) :
          tzinfo_pos \in {Find(text, p, {"Z", "+", "-"})} })

\* parse_isoformat_date: 'YYYY-MM-DD' or 'YYYYMMDD' at the head of text;
\* rv negative on an error.  (Week dates, with a W after the year, are
\* not read here; no text written to the file holds one.)
parse_isoformat_date(text) ==
    LET year == parse_digits(text, 1, 4, 0)
        uses_separator == Char(text, 5) = "-"
        p == IF uses_separator THEN 6 ELSE 5
        month == parse_digits(text, p, 2, 0)
        q == IF uses_separator THEN p + 3 ELSE p + 2
        day == parse_digits(text, q, 2, 0)
    IN  IF year < 0 \/ Char(text, p) = "W" \/ month < 0 THEN [rv |-> 0 - 1]
        ELSE IF uses_separator /\ Char(text, p + 2) # "-" THEN [rv |-> 0 - 2]
        ELSE IF day < 0 THEN [rv |-> 0 - 1]
        ELSE [rv |-> 0, year |-> year, month |-> month, day |-> day]

\* _find_isoformat_datetime_separator: the length of the date part
find_isoformat_datetime_separator(text) ==
    IF Len(text) = 7 THEN 7
    ELSE IF Char(text, 5) = "-" THEN 10
    ELSE 8

\* datetime.fromisoformat(text): [ok |-> FALSE] when it raises ValueError,
\* else the datetime
fromisoformat(text) ==
    The({ LET offset == [sign |-> time.tzsign, seconds |-> time.tzoffset,
                         microseconds |-> time.tzmicrosecond]
              tzinfo == IF time.rv # 1 THEN <<>>
                        ELSE IF time.tzoffset = 0
                        THEN << [sign |-> 1, seconds |-> 0,
                                 microseconds |-> 0] >>
                        ELSE <<offset>>
          IN  IF Len(text) < 7 \/ date.rv < 0 \/ time.rv < 0
              THEN [ok |-> FALSE]
              ELSE IF \/ date.year < 1
                      \/ date.month < 1 \/ date.month > 12
                      \/ date.day < 1
                      \/ date.day > days_in_month(date.year, date.month)
                      \/ time.hour > 23 \/ time.minute > 59
                      \/ time.second > 59
                      \/ (time.rv = 1 /\ time.tzoffset >= 86400)
              THEN [ok |-> FALSE]
              ELSE [ok |-> TRUE,
                    value |-> [days |-> DaysFromCivil(date.year, date.month,
                                                      date.day),
                               seconds |-> time.hour * 3600
                                           + time.minute * 60 + time.second,
                               microseconds |-> time.microsecond,
                               tzinfo |-> tzinfo]] :
          date \in {parse_isoformat_date(text)},
          time \in {LET separator_location ==
                            find_isoformat_datetime_separator(text)
                    IN  IF Len(text) > separator_location
                        THEN parse_isoformat_time(text,
                                                  separator_location + 2)
                        ELSE [rv |-> 0, hour |-> 0, minute |-> 0,
                              second |-> 0, microsecond |-> 0]} })

\* the instant of an aware datetime on the UTC time line
utc(dt) ==
    LET off == dt.tzinfo[1]
        us == dt.microseconds - off.sign * off.microseconds
        s == dt.seconds - off.sign * off.seconds + us \div 1000000
    IN  <<dt.days + s \div 86400, s % 86400, us % 1000000>>

\* a < b for two datetimes that are both naive or both aware
before_dt(a, b) ==
    LET x == IF a.tzinfo = <<>> THEN <<a.days, a.seconds, a.microseconds>>
             ELSE utc(a)
        y == IF b.tzinfo = <<>> THEN <<b.days, b.seconds, b.microseconds>>
             ELSE utc(b)
    IN  \/ x[1] < y[1]
        \/ (x[1] = y[1] /\ x[2] < y[2])
        \/ (x[1] = y[1] /\ x[2] = y[2] /\ x[3] < y[3])

-----------------------------------------------------------------------------
(* history.py: the CSV file and TransactionHistory                         *)
(*                                                                         *)
(* The file is [exists, lines, open, size, torn]: lines is the sequence of *)
(* its lines, a line being the sequence of its cells and a cell a str;     *)
(* open says that the last line has no line terminator yet; size is        *)
(* st_size in bytes; torn says that the file ends within a two-byte        *)
(* character.  No text written here holds a comma, a quote or a line       *)
(* break, so csv writes and reads every cell as it is.                     *)

\* history.py:96-100
headers ==
    << "phone_number", "beneficiary_firstname", "beneficiary_lastname",
       "country", "amount", "payment_method", "delivery_method",
       "timestamp", "confirmation_code" >>

HeaderLine == headers


\* the elements of a list
Range(seq) == {seq[i] : i \in 1..Len(seq)}

\* the bytes of a line without its line terminator: the cells and the
\* commas between them
RECURSIVE LineBytes(_)
LineBytes(line) ==
    IF line = <<>> THEN 0
    ELSE Bytes(Head(line))
         + (IF Len(line) > 1 THEN 1 + LineBytes(Tail(line)) ELSE 0)

\* the bytes of lines that each end in '\r\n'
RECURSIVE Size(_)
Size(lines) ==
    IF lines = <<>> THEN 0
    ELSE LineBytes(Head(lines)) + 2 + Size(Tail(lines))

\* a file of whole lines, as csv.writer writes them
FileOf(lines) ==
    [exists |-> TRUE, lines |-> lines, open |-> FALSE, size |-> Size(lines),
     torn |-> FALSE]

\* no file yet: history.py:57
MissingFile ==
    [exists |-> FALSE, lines |-> <<>>, open |-> FALSE, size |-> 0,
     torn |-> FALSE]

\* an existing file of size 0
EmptyFile == FileOf(<<>>)

\* csv.DictReader.__next__: dict(zip(fieldnames, row)), where a later
\* duplicate of a name wins, and then restval None under every name past
\* the end of a short row, a name repeated from before that end included.
\* So a name reads the cell under its last occurrence, or None when the
\* row ends before it.  The str s is <<s>>, None is <<>>.  The cells past
\* the last name go under the key None, which load_all does not read
RowDict(fieldnames, line) ==
    [k \in Range(fieldnames) |->
       LET last == CHOOSE i \in 1..Len(fieldnames) :
                      /\ fieldnames[i] = k
                      /\ \A j \in (i + 1)..Len(fieldnames) : fieldnames[j] # k
       IN  IF last <= Len(line) THEN <<line[last]>> ELSE <<>>]

\* history.py:65  "if not row or not row.get('phone_number'): continue"
RowSkipped(row) ==
    \/ DOMAIN row = {}
    \/ ~Has(row, "phone_number")
    \/ row["phone_number"] = <<>>
    \/ row["phone_number"] = <<"">>

\* an exception left the code.  Its class is left out: those raised while
\* the file is read (KeyError, TypeError, ValueError and, of that class,
\* UnicodeDecodeError and ValidationError) are all caught by "except
\* Exception"
Raised == [raises |-> "Exception"]

\* history.py:68-80: [ret |-> the TransactionHistoryRecord of the row], or
\* Raised.  A name the header does not hold is a KeyError; None is no str
\* for a model field (pydantic's ValidationError), for float or for
\* fromisoformat (TypeError); an empty name is a ValidationError; a text
\* that is no number or no time is a ValueError
RowRecord(row) ==
    IF \/ \E i \in 1..Len(headers) : ~Has(row, headers[i])
       \/ \E i \in 1..Len(headers) : row[headers[i]] = <<>>
       \/ BeneficiaryErrors(row["beneficiary_firstname"][1],
                            row["beneficiary_lastname"][1]) # <<>>
       \/ ~IsFloatText(row["amount"][1])
    THEN Raised
    ELSE The({ IF ~timestamp.ok THEN Raised
               ELSE [ret |->
                       [phone_number |-> row["phone_number"][1],
                        firstname |-> row["beneficiary_firstname"][1],
                        lastname |-> row["beneficiary_lastname"][1],
                        country |-> row["country"][1],
                        amount |-> FloatCents(row["amount"][1]),
                        payment_method |-> row["payment_method"][1],
                        delivery_method |-> row["delivery_method"][1],
                        timestamp |-> timestamp.value,
                        confirmation_code |-> row["confirmation_code"][1]]] :
               timestamp \in {fromisoformat(row["timestamp"][1])} })

\* history.py:61-81, the body of the try: [ret |-> records], or Raised.  A
\* file that ends within a character cannot be decoded
read_records(f) ==
    IF f.torn THEN Raised
    ELSE IF f.lines = <<>> THEN [ret |-> <<>>]
    ELSE
      LET fieldnames == f.lines[1]
          rows == [i \in 1..(Len(f.lines) - 1) |->
                     RowDict(fieldnames, f.lines[i + 1])]
          kept == SelectSeq(rows, LAMBDA row : ~RowSkipped(row))
          built == [i \in 1..Len(kept) |-> RowRecord(kept[i])]
      IN  IF \E i \in 1..Len(built) : Has(built[i], "raises") THEN Raised
          ELSE [ret |-> [i \in 1..Len(built) |-> built[i].ret]]

\* load_all without its except clause: the exception reaches the caller
load_all_unhandled(f) ==
    IF ~f.exists THEN [ret |-> <<>>] ELSE read_records(f)

\* TransactionHistory.load_all: [ret |-> records].  No file is no records
\* (history.py:57); an exception of the read is caught and [] returned
\* (history.py:82-84)
load_all(f) ==
    IF ~f.exists THEN [ret |-> <<>>]
    ELSE The({ IF Has(records, "raises") THEN [ret |-> <<>>] ELSE records :
               records \in {read_records(f)} })

\* history.py:102-112: the row add_transaction writes for a record
RowOf(record) ==
    << record.phone_number, record.firstname, record.lastname,
       record.country, str(record.amount), record.payment_method,
       record.delivery_method, isoformat(record.timestamp),
       record.confirmation_code >>

\* the first n bytes of the text of a line, 0 < n <= LineBytes(line): the
\* cells they make up.  A comma written last begins a cell that is empty
\* so far
RECURSIVE CutLine(_, _)
CutLine(line, n) ==
    LET size == Bytes(line[1])
        cut == BytePrefix(line[1], n)
        rest == CutLine(Tail(line), n - size - 1)
    IN  IF n < size THEN [cells |-> <<cut.text>>, torn |-> cut.torn]
        ELSE IF n = size THEN [cells |-> <<line[1]>>, torn |-> FALSE]
        ELSE IF n = size + 1
        THEN [cells |-> <<line[1], "">>, torn |-> FALSE]
        ELSE [rest EXCEPT !.cells = <<line[1]>> \o @]

\* the file after further cells, bytes long, were written at its end:
\* they go on the last line when that is open, and begin a line of their
\* own otherwise; terminated says that a line terminator followed them.
\* What follows half a character stays undecodable
AppendCells(f, cells, bytes, terminated, torn) ==
    LET n == Len(f.lines)
    IN  [exists |-> TRUE,
         lines |-> IF f.torn THEN f.lines
                   ELSE IF f.open
                   THEN [f.lines EXCEPT
                           ![n] = SubSeq(@, 1, Len(@) - 1)
                                  \o <<@[Len(@)] \o cells[1]>>
                                  \o Tail(cells)]
                   ELSE Append(f.lines, cells),
         open |-> ~terminated,
         size |-> f.size + bytes,
         torn |-> f.torn \/ torn]

\* the file after the first n bytes of the text of lines, each followed
\* by '\r\n', were written at its end.  A '\r' alone ends a line as well
\* when the file is read
RECURSIVE Write(_, _, _)
Write(f, lines, n) ==
    IF lines = <<>> \/ n = 0 THEN f
    ELSE
      LET line == Head(lines)
          size == LineBytes(line)
          cut == CutLine(line, n)
      IN  IF n >= size + 2
          THEN Write(AppendCells(f, line, size + 2, TRUE, FALSE),
                     Tail(lines), n - size - 2)
          ELSE IF n = size + 1
          THEN AppendCells(f, line, n, TRUE, FALSE)
          ELSE AppendCells(f, cut.cells, n, FALSE, cut.torn)

\* open() raised: nothing was written
OpenFails == 0 - 1

\* history.py:115-119: the lines add_transaction writes
LinesToAdd(f, record) ==
    (IF ~f.exists \/ f.size = 0 THEN <<HeaderLine>> ELSE <<>>)
    \o <<RowOf(record)>>

\* the bytes add_transaction writes
BytesToAdd(f, record) == Size(LinesToAdd(f, record))

\* TransactionHistory.add_transaction: the file after the call.  written
\* is the number of bytes that reached the file before a write raised
\* (all of them when none did), or OpenFails; the exception is printed and
\* the call returns None either way.  open(csv_path, "a") creates a
\* missing file.
add_transaction(f, record, written) ==
    IF written = OpenFails THEN f
    ELSE Write([f EXCEPT !.exists = TRUE], LinesToAdd(f, record), written)

TypeError == [raises |-> "TypeError"]

\* the list holds a naive and an aware datetime: comparing the two raises
\* TypeError, and a sort of the list compares two such
Incomparable(records) ==
    \E i, j \in 1..Len(records) :
        /\ records[i].timestamp.tzinfo = <<>>
        /\ records[j].timestamp.tzinfo # <<>>

\* list.sort(key=timestamp, reverse=True): stable, most recent first
RECURSIVE InsertDesc(_, _)
InsertDesc(sorted, r) ==
    IF sorted = <<>> THEN <<r>>
    ELSE IF ~before_dt(Head(sorted).timestamp, r.timestamp)
         THEN <<Head(sorted)>> \o InsertDesc(Tail(sorted), r)
         ELSE <<r>> \o sorted

RECURSIVE SortDesc(_)
SortDesc(records) ==
    IF records = <<>> THEN <<>>
    ELSE InsertDesc(SortDesc(SubSeq(records, 1, Len(records) - 1)),
                    records[Len(records)])

\* history.py:133-138: the records of the user among those load_all
\* returned, most recent first: [ret |-> the list returned], or the
\* exception raised.  An exception of load_all would leave the function
user_records(all_records, phone_number) ==
    LET IsUser(r) == r.phone_number = phone_number
        selected == SelectSeq(all_records.ret, IsUser)
    IN  IF Has(all_records, "raises") THEN all_records
        ELSE IF Incomparable(selected) THEN TypeError
        ELSE [ret |-> SortDesc(selected)]

\* TransactionHistory.get_user_transactions
get_user_transactions(f, phone_number) ==
    user_records(load_all(f), phone_number)

\* "not x" for an optional str: None is <<>>, the str s is <<s>>
Falsy(x) == x = <<>> \/ x[1] = ""

\* history.py:158-176: the transactions among user_txns to the beneficiary
\* named.  The exception get_user_transactions raised leaves the function:
\* history.py:158 makes the call before the names are looked at
matching(user_txns, firstname, lastname) ==
    LET Match(txn) ==
            LET firstname_match ==
                    Lower(txn.firstname) = Lower(firstname[1])
            IN  IF ~Falsy(lastname)
                THEN firstname_match
                     /\ Lower(txn.lastname) = Lower(lastname[1])
                ELSE firstname_match
    IN  IF Has(user_txns, "raises") THEN user_txns
        ELSE IF Falsy(firstname) THEN [ret |-> <<>>]
        ELSE [ret |-> SelectSeq(user_txns.ret, Match)]

\* find_beneficiary_history
find_beneficiary_history(f, phone_number, firstname, lastname) ==
    matching(get_user_transactions(f, phone_number), firstname, lastname)

-----------------------------------------------------------------------------
(* tools.py: the session tool layer.  Each tool is an operator from the    *)
(* session state and the arguments to the new session state and the dict   *)
(* it returns.                                                             *)

\* tools.py:29-35: the first supported country equal to the input ignoring
\* case, as <<country>>; <<>> is None
normalized_country(country) ==
    LET hits == {i \in 1..Len(SUPPORTED_COUNTRIES) :
                    Lower(SUPPORTED_COUNTRIES[i]) = Lower(country)}
    IN  IF hits = {} THEN <<>>
        ELSE <<SUPPORTED_COUNTRIES[CHOOSE i \in hits : \A j \in hits : i <= j]>>

\* set_country storing the caller's own spelling
set_country_raw(st, country) ==
    LET found == normalized_country(country)
    IN  IF found = <<>>
        THEN [state |-> st,
              result |-> [success |-> FALSE,
                          error |-> ErrCountryNotSupported(country)]]
        ELSE [state |-> Put(st, "country", country),
              result |-> [success |-> TRUE, country |-> country,
                          message |-> <<"Country set to", country>>]]

\* set_country keeping a country that is already staged
set_country_keeps_first(st, country) ==
    LET found == normalized_country(country)
    IN  IF found = <<>>
        THEN [state |-> st,
              result |-> [success |-> FALSE,
                          error |-> ErrCountryNotSupported(country)]]
        ELSE [state |-> IF Has(st, "country") THEN st
                        ELSE Put(st, "country", found[1]),
              result |-> [success |-> TRUE, country |-> found[1],
                          message |-> <<"Country set to", found[1]>>]]

set_country(st, country) ==
    LET found == normalized_country(country)
    IN  IF found = <<>>
        THEN [state |-> st,
              result |-> [success |-> FALSE,
                          error |-> ErrCountryNotSupported(country)]]
        ELSE [state |-> Put(st, "country", found[1]),
              result |-> [success |-> TRUE, country |-> found[1],
                          message |-> <<"Country set to", found[1]>>]]

\* tools.py:76: the country literal handed to Transaction by set_amount
SET_AMOUNT_COUNTRY == "MÃ©xico"

\* set_amount without its own minimum check (tools.py:64-68 left out)
set_amount_no_minimum(st, amount) ==
    LET errors == TransactionErrors(SET_AMOUNT_COUNTRY, amount,
                                    "credit_card", "digital_wallet")
    IN  IF errors # <<>>
        THEN [state |-> st,
              result |-> [success |-> FALSE, error |-> errors[1]]]
        ELSE [state |-> Put(st, "amount", amount),
              result |-> [success |-> TRUE, amount |-> amount,
                          message |-> <<"Amount set to", amount>>]]

set_amount(st, amount) ==
    IF amount < MIN_AMOUNT
    THEN [state |-> st,
          result |-> [success |-> FALSE, error |-> ErrAmountAtLeast]]
    ELSE
      LET errors == IF BeneficiaryErrors("Test", "User") # <<>>
                    THEN BeneficiaryErrors("Test", "User")
                    ELSE TransactionErrors(SET_AMOUNT_COUNTRY, amount,
                                           "credit_card", "digital_wallet")
      IN  IF errors # <<>>
          THEN [state |-> st,
                result |-> [success |-> FALSE, error |-> errors[1]]]
          ELSE [state |-> Put(st, "amount", amount),
                result |-> [success |-> TRUE, amount |-> amount,
                            message |-> <<"Amount set to", amount>>]]

\* set_beneficiary keeping a last name that is already staged
set_beneficiary_keeps_lastname(st, firstname, lastname) ==
    IF firstname = "" \/ lastname = ""
    THEN [state |-> st,
          result |-> [success |-> FALSE, error |-> ErrBothNames]]
    ELSE [state |-> IF Has(st, "beneficiary_lastname")
                    THEN Put(st, "beneficiary_firstname", firstname)
                    ELSE Put(Put(st, "beneficiary_firstname", firstname),
                             "beneficiary_lastname", lastname),
          result |-> [success |-> TRUE,
                      beneficiary |-> full_name(firstname, lastname),
                      message |-> <<"Beneficiary set to",
                                    full_name(firstname, lastname)>>]]

\* set_beneficiary storing the first name before it looks at the last name
set_beneficiary_stores_firstname(st, firstname, lastname) ==
    IF firstname = ""
    THEN [state |-> st,
          result |-> [success |-> FALSE, error |-> ErrBothNames]]
    ELSE IF lastname = ""
    THEN [state |-> Put(st, "beneficiary_firstname", firstname),
          result |-> [success |-> FALSE, error |-> ErrBothNames]]
    ELSE [state |-> Put(Put(st, "beneficiary_firstname", firstname),
                        "beneficiary_lastname", lastname),
          result |-> [success |-> TRUE,
                      beneficiary |-> full_name(firstname, lastname),
                      message |-> <<"Beneficiary set to",
                                    full_name(firstname, lastname)>>]]

set_beneficiary(st, firstname, lastname) ==
    IF firstname = "" \/ lastname = ""
    THEN [state |-> st,
          result |-> [success |-> FALSE, error |-> ErrBothNames]]
    ELSE IF BeneficiaryErrors(firstname, lastname) # <<>>
    THEN [state |-> st,
          result |-> [success |-> FALSE,
                      error |-> BeneficiaryErrors(firstname, lastname)[1]]]
    ELSE [state |-> Put(Put(st, "beneficiary_firstname", firstname),
                        "beneficiary_lastname", lastname),
          result |-> [success |-> TRUE,
                      beneficiary |-> full_name(firstname, lastname),
                      message |-> <<"Beneficiary set to",
                                    full_name(firstname, lastname)>>]]

\* set_payment_method starting the session state afresh on success
set_payment_method_resets(st, payment_method) ==
    IF ~InList(payment_method, PAYMENT_METHODS)
    THEN [state |-> st,
          result |-> [success |-> FALSE,
                      error |-> ErrPaymentNotSupported(payment_method)]]
    ELSE [state |-> Put(EmptyDict, "payment_method", payment_method),
          result |-> [success |-> TRUE, payment_method |-> payment_method,
                      message |-> <<"Payment method set to", payment_method>>]]

set_payment_method(st, payment_method) ==
    IF ~InList(payment_method, PAYMENT_METHODS)
    THEN [state |-> st,
          result |-> [success |-> FALSE,
                      error |-> ErrPaymentNotSupported(payment_method)]]
    ELSE [state |-> Put(st, "payment_method", payment_method),
          result |-> [success |-> TRUE, payment_method |-> payment_method,
                      message |-> <<"Payment method set to", payment_method>>]]

set_delivery_method(st, delivery_method) ==
    IF ~InList(delivery_method, DELIVERY_METHODS)
    THEN [state |-> st,
          result |-> [success |-> FALSE,
                      error |-> ErrDeliveryNotSupported(delivery_method)]]
    ELSE [state |-> Put(st, "delivery_method", delivery_method),
          result |-> [success |-> TRUE, delivery_method |-> delivery_method,
                      message |-> <<"Delivery method set to", delivery_method>>]]

\* set_phone_number, the tool agent.py imports from tools.py and registers
\* first (agent.py:5, 197); tools.py does not define it.  By agent.py:63-72
\* it logs the user in with the phone number given, and phone_number is the
\* key of the session state that names the user: the call stores the
\* number under that key and reports success.  What else the result
\* carries (agent.py:65: a profile and the limit status) is left out.
set_phone_number(st, phone_number) ==
    [state |-> Put(st, "phone_number", phone_number),
     result |-> [success |-> TRUE, phone_number |-> phone_number]]

\* tools.py:248  f"TXN-{secrets.token_hex(4).upper()}": token is the random
\* 4-byte value
ConfirmationCode(token) == <<"TXN-", token>>

\* transfer_money storing the bookkeeping before it validates
transfer_money_writes_first(st, firstname, lastname, country, amount, payment_method, delivery_method, token) ==
    LET st1 == Put(st, "last_transfer_confirmation", ConfirmationCode(token))
        st2 == Put(st1, "last_transfer_amount", amount)
        st3 == Put(st2, "last_transfer_beneficiary",
                   full_name(firstname, lastname))
        errors == IF BeneficiaryErrors(firstname, lastname) # <<>>
                  THEN BeneficiaryErrors(firstname, lastname)
                  ELSE TransactionErrors(country, amount, payment_method,
                                         delivery_method)
    IN  IF errors # <<>>
        THEN [state |-> st3,
              result |-> [success |-> FALSE, error |-> errors[1]]]
        ELSE [state |-> st3,
              result |-> [success |-> TRUE,
                          confirmation_code |-> ConfirmationCode(token),
                          amount |-> amount,
                          beneficiary |-> full_name(firstname, lastname),
                          country |-> country,
                          payment_method |-> payment_method,
                          delivery_method |-> delivery_method,
                          message |-> <<"Transfer confirmed", amount,
                                        full_name(firstname, lastname), country,
                                        ConfirmationCode(token)>>]]

\* transfer_money validating the country staged in the session, when there
\* is one, in place of its argument
transfer_money_trusts_staged(st, firstname, lastname, country, amount, payment_method, delivery_method, token) ==
    LET used == IF Has(st, "country") THEN st.country ELSE country
        errors == IF BeneficiaryErrors(firstname, lastname) # <<>>
                  THEN BeneficiaryErrors(firstname, lastname)
                  ELSE TransactionErrors(used, amount, payment_method,
                                         delivery_method)
        st1 == Put(st, "last_transfer_confirmation", ConfirmationCode(token))
        st2 == Put(st1, "last_transfer_amount", amount)
        st3 == Put(st2, "last_transfer_beneficiary",
                   full_name(firstname, lastname))
    IN  IF errors # <<>>
        THEN [state |-> st,
              result |-> [success |-> FALSE, error |-> errors[1]]]
        ELSE [state |-> st3,
              result |-> [success |-> TRUE,
                          confirmation_code |-> ConfirmationCode(token),
                          amount |-> amount,
                          beneficiary |-> full_name(firstname, lastname),
                          country |-> used,
                          payment_method |-> payment_method,
                          delivery_method |-> delivery_method,
                          message |-> <<"Transfer confirmed", amount,
                                        full_name(firstname, lastname), used,
                                        ConfirmationCode(token)>>]]

\* transfer_money starting the session state afresh once the transfer is
\* confirmed
transfer_money_clears_draft(st, firstname, lastname, country, amount, payment_method, delivery_method, token) ==
    LET errors == IF BeneficiaryErrors(firstname, lastname) # <<>>
                  THEN BeneficiaryErrors(firstname, lastname)
                  ELSE TransactionErrors(country, amount, payment_method,
                                         delivery_method)
        st1 == Put(EmptyDict, "last_transfer_confirmation",
                   ConfirmationCode(token))
        st2 == Put(st1, "last_transfer_amount", amount)
        st3 == Put(st2, "last_transfer_beneficiary",
                   full_name(firstname, lastname))
    IN  IF errors # <<>>
        THEN [state |-> st,
              result |-> [success |-> FALSE, error |-> errors[1]]]
        ELSE [state |-> st3,
              result |-> [success |-> TRUE,
                          confirmation_code |-> ConfirmationCode(token),
                          amount |-> amount,
                          beneficiary |-> full_name(firstname, lastname),
                          country |-> country,
                          payment_method |-> payment_method,
                          delivery_method |-> delivery_method,
                          message |-> <<"Transfer confirmed", amount,
                                        full_name(firstname, lastname), country,
                                        ConfirmationCode(token)>>]]

\* transfer_money; token is the value secrets.token_hex(4) draws
transfer_money(st, firstname, lastname, country, amount, payment_method, delivery_method, token) ==
    IF BeneficiaryErrors(firstname, lastname) # <<>>
    THEN [state |-> st,
          result |-> [success |-> FALSE,
                      error |-> BeneficiaryErrors(firstname, lastname)[1]]]
    ELSE IF TransactionErrors(country, amount, payment_method,
                              delivery_method) # <<>>
    THEN [state |-> st,
          result |-> [success |-> FALSE,
                      error |-> TransactionErrors(country, amount,
                                    payment_method, delivery_method)[1]]]
    ELSE
      LET confirmation_code == ConfirmationCode(token)
          st1 == Put(st, "last_transfer_confirmation", confirmation_code)
          st2 == Put(st1, "last_transfer_amount", amount)
          st3 == Put(st2, "last_transfer_beneficiary",
                     full_name(firstname, lastname))
      IN  [state |-> st3,
           result |-> [success |-> TRUE,
                       confirmation_code |-> confirmation_code,
                       amount |-> amount,
                       beneficiary |-> full_name(firstname, lastname),
                       country |-> country,
                       payment_method |-> payment_method,
                       delivery_method |-> delivery_method,
                       message |-> <<"Transfer confirmed", amount,
                                     full_name(firstname, lastname), country,
                                     confirmation_code>>]]

-----------------------------------------------------------------------------
(* A Python float (an IEEE 754 double) holding an amount of money is        *)
(* written [c |-> c, d |-> d], c and d integers: its value v is the one    *)
(* with 100 * v = c + d / 2^59.  c is the amount in whole cents and d what *)
(* the double differs from it; every double met here is a multiple of      *)
(* 2^-59 and at most some cents away from the amount it stands for, so d   *)
(* stays a small integer and two floats are equal exactly when their       *)
(* records are.                                                            *)

\* the exact sum, difference and negative, before any rounding
Plus(x, y) == [c |-> x.c + y.c, d |-> x.d + y.d]
Minus(x, y) == [c |-> x.c - y.c, d |-> x.d - y.d]
Neg(x) == [c |-> 0 - x.c, d |-> 0 - x.d]

\* x < y
fless(x, y) == x.c < y.c \/ (x.c = y.c /\ x.d < y.d)

\* x >= 2^e, for x > 0
AtLeastPow2(x, e) ==
    IF e >= 0
    THEN x.c > 100 * 2^e \/ (x.c = 100 * 2^e /\ x.d >= 0)
    ELSE x.c * 2^(0 - e) > 100 \/ (x.c * 2^(0 - e) = 100 /\ x.d >= 0)

\* the binary exponent of x >= 2^lo: the largest e in lo..hi with x >= 2^e
RECURSIVE Exponent(_, _, _)
Exponent(x, lo, hi) ==
    IF lo = hi THEN lo
    ELSE LET mid == (lo + hi + 1) \div 2
         IN  IF AtLeastPow2(x, mid) THEN Exponent(x, mid, hi)
             ELSE Exponent(x, lo, mid - 1)

\* 2^k modulo m, for m = 100 and m = 200 and k >= 3 (the powers of two
\* repeat modulo 25 with period 20)
Pow2Mod(k, m) == (2^(3 + ((k - 3) % 20))) % m

\* round to nearest, ties to even, of x > 0: a double with exponent e has
\* 53 significant bits, so it is a multiple of 2^(e - 52), that is
\* x * 2^59 is a multiple of 2^u with u = e + 7
RoundPositive(x) ==
    IF ~AtLeastPow2(x, 0 - 7) THEN x
    ELSE LET \* amounts lie between 2^-7 < 0.01 and 2^24 > 16 million
             e == Exponent(x, 0 - 7, 23)
             u == e + 7
             M == 100 * 2^u
             \* (c * 2^59 + d) modulo M and modulo 2 * M
             R == (2^u * (((x.c % 100) * Pow2Mod(59 - u, 100)) % 100) + x.d)
                    % M
             R2 == (2^u * (((x.c % 200) * Pow2Mod(59 - u, 200)) % 200) + x.d)
                     % (2 * M)
         IN  IF 2 * R < M THEN [x EXCEPT !.d = @ - R]
             ELSE IF 2 * R > M THEN [x EXCEPT !.d = @ - R + M]
             ELSE IF R2 = R THEN [x EXCEPT !.d = @ - R]
             ELSE [x EXCEPT !.d = @ - R + M]

\* the double nearest to an exact value; a whole number of this size is a
\* double itself
Round(x) ==
    IF x.d = 0 /\ x.c % 100 = 0 THEN x
    ELSE IF fless(x, [c |-> 0, d |-> 0]) THEN Neg(RoundPositive(Neg(x)))
    ELSE RoundPositive(x)

\* float(amount): the double nearest to an amount given in cents
float(cents) == Round([c |-> cents, d |-> 0])

\* x + y and x - y in double precision
fadd(x, y) == Round(Plus(x, y))
fsub(x, y) == Round(Minus(x, y))

\* fabs(x)
fabs(x) == IF fless(x, [c |-> 0, d |-> 0]) THEN Neg(x) ELSE x

\* the float loop of sum() from item i of xs on (CPython 3.12 and later:
\* Neumaier's compensated summation): f_result is the running total and c
\* what the additions so far have rounded away, added back at the end.
\* (Through CPython 3.11 sum() adds the items one after the other and
\* keeps no compensation.)
RECURSIVE sum_floats(_, _, _, _)
sum_floats(xs, i, f_result, c) ==
    IF i > Len(xs)
    THEN (IF c # [c |-> 0, d |-> 0] THEN fadd(f_result, c) ELSE f_result)
    ELSE LET x == xs[i]
             t == fadd(f_result, x)
         IN  sum_floats(xs, i + 1, t,
                        fadd(c, IF ~fless(fabs(f_result), fabs(x))
                                THEN fadd(fsub(f_result, t), x)
                                ELSE fadd(fsub(x, t), f_result)))

\* sum(xs) of a list of floats: the start value 0 plus the first item is
\* that item, and the float loop takes over from there
sum(xs) ==
    IF xs = <<>> THEN float(0) ELSE sum_floats(xs, 2, xs[1], float(0))

\* f"{x:.2f}": the sign and the nearest whole cents
format2f(x) ==
    [negative |-> fless(x, float(0)),
     cents |-> IF x.c < 0 THEN 0 - x.c ELSE x.c]

-----------------------------------------------------------------------------
(* limits.py and models.py: the limits engine.  Amounts passed in          *)
(* (Transaction.amount, the argument of can_transfer and add_transfer) are *)
(* given in cents; the engine holds and returns floats.                    *)

PERIODS == {"daily", "monthly", "semester"}

\* Cutoff with the daily and the semester windows exchanged
Cutoff_swapped(current_time, period) ==
    CASE period = "daily" -> current_time - Days(180)
      [] period = "monthly" -> current_time - Days(30)
      [] period = "semester" -> current_time - Days(1)

\* limits.py:23-28: the cutoff of a period
Cutoff(current_time, period) ==
    CASE period = "daily" -> current_time - Days(1)
      [] period = "monthly" -> current_time - Days(30)
      [] period = "semester" -> current_time - Days(180)

\* txn.amount for txn in transactions: the amounts, as floats, in the order
\* of the list
Amounts(transactions) ==
    [i \in 1..Len(transactions) |-> float(transactions[i].amount)]

\* SumSince with the cutoff instant excluded
SumSince_exclusive(transactions, cutoff) ==
    sum(Amounts(SelectSeq(transactions,
                          LAMBDA txn : txn.timestamp > cutoff)))

\* limits.py:33-35: sum(txn.amount for txn in transactions
\*                      if txn.timestamp >= cutoff)
SumSince(transactions, cutoff) ==
    sum(Amounts(SelectSeq(transactions,
                          LAMBDA txn : txn.timestamp >= cutoff)))

\* calculate_period_usage taking an unknown period for the widest window
calculate_period_usage_lenient(transactions, current_time, period) ==
    IF period \notin PERIODS
    THEN [total |-> SumSince(transactions, Cutoff(current_time, "semester"))]
    ELSE [total |-> SumSince(transactions, Cutoff(current_time, period))]

\* calculate_period_usage: [total] on return, [raises] on an invalid period
calculate_period_usage(transactions, current_time, period) ==
    IF period \notin PERIODS
    THEN [raises |-> "ValueError", period |-> period]
    ELSE [total |-> SumSince(transactions, Cutoff(current_time, period))]

\* TransferLimits(daily_used=, monthly_used=, semester_used=): six floats
TransferLimits(daily_used, monthly_used, semester_used) ==
    [daily_limit |-> float(DAILY_LIMIT),
     monthly_limit |-> float(MONTHLY_LIMIT),
     semester_limit |-> float(SEMESTER_LIMIT),
     daily_used |-> daily_used,
     monthly_used |-> monthly_used,
     semester_used |-> semester_used]

daily_remaining(l) == fsub(l.daily_limit, l.daily_used)
monthly_remaining(l) == fsub(l.monthly_limit, l.monthly_used)
semester_remaining(l) == fsub(l.semester_limit, l.semester_used)

\* the reason text: "Transfer would exceed <window> limit. Remaining:
\* $<remaining:.2f> USD"
Reason(window, remaining) ==
    [window |-> window, remaining |-> format2f(remaining)]

\* TransferLimits.can_transfer: [ok, reason]; reason <<>> is None.
\* 'amount > self.daily_remaining' compares two floats
can_transfer(l, amount) ==
    IF fless(daily_remaining(l), float(amount))
    THEN [ok |-> FALSE, reason |-> <<Reason("daily", daily_remaining(l))>>]
    ELSE IF fless(monthly_remaining(l), float(amount))
    THEN [ok |-> FALSE, reason |-> <<Reason("monthly", monthly_remaining(l))>>]
    ELSE IF fless(semester_remaining(l), float(amount))
    THEN [ok |-> FALSE,
          reason |-> <<Reason("semester", semester_remaining(l))>>]
    ELSE [ok |-> TRUE, reason |-> <<>>]

\* add_transfer counting the amount against the daily window only
add_transfer_daily_only(l, amount) ==
    [l EXCEPT !.daily_used = fadd(@, float(amount))]

\* TransferLimits.add_transfer: the snapshot after the call
add_transfer(l, amount) ==
    [l EXCEPT !.daily_used = fadd(@, float(amount)),
              !.monthly_used = fadd(@, float(amount)),
              !.semester_used = fadd(@, float(amount))]

\* get_current_limits adding the usage onto the snapshot computed before
get_current_limits_accumulating(tr) ==
    TransferLimits(
        fadd(limits.daily_used,
             calculate_period_usage(tr.transactions, tr.current_time, "daily").total),
        fadd(limits.monthly_used,
             calculate_period_usage(tr.transactions, tr.current_time, "monthly").total),
        fadd(limits.semester_used,
             calculate_period_usage(tr.transactions, tr.current_time, "semester").total))

\* LimitsTracker.get_current_limits
get_current_limits(tr) ==
    TransferLimits(
        calculate_period_usage(tr.transactions, tr.current_time, "daily").total,
        calculate_period_usage(tr.transactions, tr.current_time, "monthly").total,
        calculate_period_usage(tr.transactions, tr.current_time, "semester").total)

\* LimitsTracker.check_limits
check_limits(tr, amount) == can_transfer(get_current_limits(tr), amount)

-----------------------------------------------------------------------------
(* The session: initial states and the arguments the caller may pass       *)

\* seed_data.py:8
MAJOR_CARLOS_PHONE == "+15550001111"

\* seed_data.py:39-76: the rows create_seed_data writes when
\* datetime.now() is the tick current
SeedRows(current) ==
    << << MAJOR_CARLOS_PHONE, "Maria", "Saavedra", "Colombia",
          str(20000), "bank_transfer", "bank_account",
          isoformat(at(current - Days(40))), "TXN-SEED-001" >>,
       << MAJOR_CARLOS_PHONE, "Juan", "Perez", "México",
          str(15000), "credit_card", "digital_wallet",
          isoformat(at(current - Days(7))), "TXN-SEED-002" >>,
       << MAJOR_CARLOS_PHONE, "Ana", "Gomez", "El Salvador",
          str(30000), "debit_card", "digital_wallet",
          isoformat(at(current - Days(1))), "TXN-SEED-003" >> >>

\* create_seed_data: the file after the call at the tick current.  A file
\* of more than 100 bytes is left alone.  Else open(csv_path, "w") empties
\* or creates the file and the header and the rows are written; written is
\* the number of bytes that reached the file before a write raised (all of
\* them when none did), or OpenFails; the exception leaves the function.
create_seed_data(f, current, written) ==
    IF f.exists /\ f.size > 100 THEN f
    ELSE IF written = OpenFails THEN f
    ELSE Write(EmptyFile, <<HeaderLine>> \o SeedRows(current), written)

\* the bytes create_seed_data writes
BytesToSeed(current) == Size(<<HeaderLine>> \o SeedRows(current))

\* the file create_seed_data writes at tick 0
SeedFile == FileOf(<<HeaderLine>> \o SeedRows(0))

\* test_tools.py:62
TEST_PHONE == "+1234567890"

\* the session state a conversation starts from: empty (test_tools.py:22),
\* logged in (test_tools.py:62), or carrying values staged when the session
\* was created (test_tools.py:46)
InitialStates ==
    { EmptyDict,
      [phone_number |-> TEST_PHONE],
      [phone_number |-> MAJOR_CARLOS_PHONE, amount |-> 10000,
       country |-> "México"] }

CountryInputs == {"colombia", "COLOMBIA", "France"}
AmountInputs == {30, 50, 150000, 150001}
\* the names of a set_beneficiary call: a full name, and each name missing
BeneficiaryInputs ==
    { [firstname |-> "John", lastname |-> "Doe"],
      [firstname |-> "", lastname |-> "Roe"],
      [firstname |-> "Jane", lastname |-> ""] }
\* a second full name
OtherBeneficiary == [firstname |-> "Jane", lastname |-> "Roe"]
PaymentInputs == {"debit_card", "crypto"}
DeliveryInputs == {"bank_account", "cash_pickup"}
\* the number agent.py:64 gives for "Major Carlos"
PhoneNumberInputs == {MAJOR_CARLOS_PHONE}

\* values secrets.token_hex(4).upper() may draw
Tokens == {"0A1B2C3D", "FFFFFFFF"}

\* the arguments of a transfer_money call: one valid call and calls with
\* one argument changed
ValidTransfer ==
    [firstname |-> "John", lastname |-> "Doe", country |-> "Colombia",
     amount |-> 150000, payment_method |-> "credit_card",
     delivery_method |-> "digital_wallet"]

TransferInputs ==
    { ValidTransfer,
      [ValidTransfer EXCEPT !.firstname = ""],
      [ValidTransfer EXCEPT !.lastname = ""],
      [ValidTransfer EXCEPT !.country = "France"],
      [ValidTransfer EXCEPT !.country = "colombia"],
      [ValidTransfer EXCEPT !.amount = 0],
      [ValidTransfer EXCEPT !.amount = 30],
      [ValidTransfer EXCEPT !.amount = 150001],
      [ValidTransfer EXCEPT !.payment_method = "crypto"],
      [ValidTransfer EXCEPT !.delivery_method = "cash_pickup"] }

-----------------------------------------------------------------------------
(* Engine state while the tools run, and tool state while the engine runs  *)

NoTracker == [transactions |-> <<>>, current_time |-> 0]
\* the patched generate_content_async before it is called
NoCall ==
    [pc |-> "none", request |-> "", issued |-> <<>>, produced |-> <<>>,
     delivered |-> <<>>, remaining |-> 0, slept |-> 0, outcomes |-> <<>>,
     error |-> <<>>]
IdleEngine ==
    /\ tracker = NoTracker
    /\ limits = TransferLimits(float(0), float(0), float(0))
    /\ out = [op |-> "none"]
    /\ wrapper = NoCall

IdleTools ==
    /\ state = EmptyDict
    /\ file = MissingFile
    /\ now = 0
    /\ executed = <<>>
    /\ result = EmptyDict
    /\ call = [op |-> "none"]

-----------------------------------------------------------------------------
(* The tool layer as a state machine                                       *)

Init ==
    /\ state \in InitialStates
    /\ file = SeedFile
    /\ now = 0
    /\ executed = <<>>
    /\ result = EmptyDict
    /\ call = [op |-> "none"]
    /\ IdleEngine

SetCountry ==
    \E country \in CountryInputs :
        \E r \in {set_country(state, country)} :
            /\ state' = r.state
            /\ result' = r.result
            /\ call' = [op |-> "set_country", country |-> country]
            /\ UNCHANGED <<file, now, executed, engineVars>>

SetAmount ==
    \E amount \in AmountInputs :
        \E r \in {set_amount(state, amount)} :
            /\ state' = r.state
            /\ result' = r.result
            /\ call' = [op |-> "set_amount", amount |-> amount]
            /\ UNCHANGED <<file, now, executed, engineVars>>

SetBeneficiary ==
    \E a \in BeneficiaryInputs :
        \E r \in {set_beneficiary(state, a.firstname, a.lastname)} :
            /\ state' = r.state
            /\ result' = r.result
            /\ call' = [op |-> "set_beneficiary", firstname |-> a.firstname,
                        lastname |-> a.lastname]
            /\ UNCHANGED <<file, now, executed, engineVars>>

SetPaymentMethod ==
    \E payment_method \in PaymentInputs :
        \E r \in {set_payment_method(state, payment_method)} :
            /\ state' = r.state
            /\ result' = r.result
            /\ call' = [op |-> "set_payment_method",
                        payment_method |-> payment_method]
            /\ UNCHANGED <<file, now, executed, engineVars>>

SetDeliveryMethod ==
    \E delivery_method \in DeliveryInputs :
        \E r \in {set_delivery_method(state, delivery_method)} :
            /\ state' = r.state
            /\ result' = r.result
            /\ call' = [op |-> "set_delivery_method",
                        delivery_method |-> delivery_method]
            /\ UNCHANGED <<file, now, executed, engineVars>>

SetPhoneNumber ==
    \E phone_number \in PhoneNumberInputs :
        \E r \in {set_phone_number(state, phone_number)} :
            /\ state' = r.state
            /\ result' = r.result
            /\ call' = [op |-> "set_phone_number",
                        phone_number |-> phone_number]
            /\ UNCHANGED <<file, now, executed, engineVars>>

\* transfer_money reads the clock for the timestamp and draws the token;
\* it opens no file.  executed records each successful return.
TransferMoney ==
    /\ Len(executed) < MaxTransfers
    /\ \E a \in TransferInputs, token \in Tokens :
        \E r \in {transfer_money(state, a.firstname, a.lastname, a.country,
                                a.amount, a.payment_method, a.delivery_method,
                                token)} :
            /\ state' = r.state
            /\ result' = r.result
            /\ call' = [op |-> "transfer_money", args |-> a]
            /\ executed' =
                 IF r.result.success
                 THEN Append(executed,
                             [amount |-> r.result.amount, timestamp |-> now,
                              confirmation_code |-> r.result.confirmation_code])
                 ELSE executed
            /\ UNCHANGED <<file, now, engineVars>>

\* the wall clock advances between calls
Tick ==
    /\ now < MaxTime
    /\ now' = now + 1
    /\ call' = [op |-> "tick"]
    /\ UNCHANGED <<state, file, executed, result, engineVars>>

Next ==
    \/ SetPhoneNumber
    \/ SetCountry
    \/ SetAmount
    \/ SetBeneficiary
    \/ SetPaymentMethod
    \/ SetDeliveryMethod
    \/ TransferMoney
    \/ Tick

Spec == Init /\ [][Next]_vars

-----------------------------------------------------------------------------
(* The limits engine as a state machine: a tracker or a snapshot is        *)
(* constructed, then its methods are called                                *)

\* the current_time every tracker of the model is built with
CurrentTime == Days(180) + 1

\* what the engine reads of a Transaction: txn.amount and txn.timestamp;
\* the smaller amount lies at and just past the daily cutoff and at the
\* monthly one, the larger one further back.  128.11 leaves a daily
\* headroom that is no whole-cent double, and 128.11 + 1400.0 is not the
\* double nearest to 1528.11
Txns ==
    { [amount |-> 12811, timestamp |-> CurrentTime - a] :
          a \in {Days(1), Days(1) + 1, Days(30)} }
    \cup { [amount |-> 140000, timestamp |-> CurrentTime - a] :
              a \in {Days(30) + 1, Days(180), Days(180) + 1} }

RECURSIVE SeqsUpTo(_, _)
SeqsUpTo(set, n) ==
    IF n = 0 THEN {<<>>}
    ELSE SeqsUpTo(set, n - 1)
         \cup {Append(q, x) : q \in {p \in SeqsUpTo(set, n - 1) : Len(p) = n - 1},
                              x \in set}

\* LimitsTracker(transactions, current_time): limits.py:50-51
\* lists of three transactions inside a window whose sum() is not what
\* adding them one after the other gives: 0.50 + 0.57 + 0.51, and
\* 128.11 + 1400.00 + 128.11 with the second outside the day
ThreeInWindow ==
    { << [amount |-> 50, timestamp |-> CurrentTime],
         [amount |-> 57, timestamp |-> CurrentTime],
         [amount |-> 51, timestamp |-> CurrentTime] >>,
      << [amount |-> 12811, timestamp |-> CurrentTime - 1],
         [amount |-> 140000, timestamp |-> CurrentTime - Days(1) - 1],
         [amount |-> 12811, timestamp |-> CurrentTime - 1] >> }

Trackers ==
    [transactions : SeqsUpTo(Txns, MaxTxns) \cup ThreeInWindow,
     current_time : {CurrentTime}]

\* TransferLimits(daily_used=, monthly_used=, semester_used=) as the tests
\* build it (test_models.py:122, 131, 145), and one near the semester cap
Snapshots ==
    { TransferLimits(float(0), float(0), float(0)),
      TransferLimits(float(50000), float(100000), float(500000)),
      TransferLimits(float(140000), float(250000), float(1000000)),
      TransferLimits(float(0), float(290000), float(1000000)),
      TransferLimits(float(0), float(0), float(1790000)) }

\* 1371.89 is what 128.11 leaves of the daily ceiling
CheckAmounts == {5000, 10000, 20000, 60000, 137189}
AddAmounts == {60000, 100000}
PeriodInputs == PERIODS \cup {"weekly"}

InitEngine ==
    /\ IdleTools
    /\ \/ tracker \in Trackers /\ limits = TransferLimits(float(0), float(0), float(0))
       \/ tracker = NoTracker /\ limits \in Snapshots
    /\ out = [op |-> "none"]
    /\ wrapper = NoCall

CalculatePeriodUsage ==
    \E period \in PeriodInputs :
        /\ out' = [op |-> "calculate_period_usage", period |-> period,
                   ret |-> calculate_period_usage(tracker.transactions,
                                                  tracker.current_time, period)]
        /\ UNCHANGED <<wrapper, tracker, limits, toolVars>>

GetCurrentLimits ==
    /\ limits' = get_current_limits(tracker)
    /\ out' = [op |-> "get_current_limits", ret |-> limits']
    /\ UNCHANGED <<wrapper, tracker, toolVars>>

CheckLimits ==
    \E amount \in CheckAmounts :
        /\ out' = [op |-> "check_limits", amount |-> amount,
                   ret |-> check_limits(tracker, amount)]
        /\ UNCHANGED <<wrapper, tracker, limits, toolVars>>

CanTransfer ==
    \E amount \in CheckAmounts :
        /\ out' = [op |-> "can_transfer", amount |-> amount,
                   ret |-> can_transfer(limits, amount)]
        /\ UNCHANGED <<wrapper, tracker, limits, toolVars>>

\* add_transfer on the snapshot at hand; the model stops adding once the
\* daily usage has reached the daily ceiling
AddTransfer ==
    /\ limits.daily_used.c < DAILY_LIMIT
    /\ \E amount \in AddAmounts :
        /\ limits' = add_transfer(limits, amount)
        /\ out' = [op |-> "add_transfer", amount |-> amount]
        /\ UNCHANGED <<wrapper, tracker, toolVars>>

NextEngine ==
    \/ CalculatePeriodUsage
    \/ GetCurrentLimits
    \/ CheckLimits
    \/ CanTransfer
    \/ AddTransfer

SpecEngine == InitEngine /\ [][NextEngine]_vars

-----------------------------------------------------------------------------
(* The domain model as a state machine: objects are constructed from       *)
(* caller-supplied values                                                  *)

NameInputs == {"", "John", "Matthews"}
ModelCountryInputs ==
    {"Colombia", "colombia", "México", "MÉXICO", SET_AMOUNT_COUNTRY,
     "República Dominicana", "France"}
ModelAmountInputs ==
    {0 - 100, 0, MIN_AMOUNT - 1, MIN_AMOUNT, MIN_AMOUNT + 1, 10050,
     DAILY_LIMIT - 1, DAILY_LIMIT, DAILY_LIMIT + 1, 2000000}
ModelPaymentInputs == {"credit_card", "debit_card", "bank_transfer", "crypto"}
ModelDeliveryInputs == {"digital_wallet", "bank_account", "cash_pickup"}

InitModels ==
    /\ IdleTools
    /\ IdleEngine

ConstructBeneficiary ==
    \E firstname \in NameInputs, lastname \in NameInputs :
        /\ out' = [op |-> "Beneficiary", firstname |-> firstname,
                   lastname |-> lastname,
                   ret |-> Beneficiary(firstname, lastname)]
        /\ UNCHANGED <<wrapper, tracker, limits, toolVars>>

ConstructTransaction ==
    \E country \in ModelCountryInputs, amount \in ModelAmountInputs,
       payment_method \in ModelPaymentInputs,
       delivery_method \in ModelDeliveryInputs :
        /\ out' = [op |-> "Transaction", country |-> country,
                   amount |-> amount, payment_method |-> payment_method,
                   delivery_method |-> delivery_method,
                   ret |-> Transaction(Beneficiary("John", "Matthews"),
                                       country, amount, payment_method,
                                       delivery_method, now)]
        /\ UNCHANGED <<wrapper, tracker, limits, toolVars>>

NextModels ==
    \/ ConstructBeneficiary
    \/ ConstructTransaction

SpecModels == InitModels /\ [][NextModels]_vars

-----------------------------------------------------------------------------
(* The history store as a state machine: records are appended to the CSV   *)
(* file and the file is queried                                            *)

\* the seed rows in a file that lost its header line
HeaderlessFile == FileOf(Tail(SeedFile.lines))

\* a file whose second row has a text that is no number in the amount
\* column
CorruptFile ==
    FileOf(<< HeaderLine, SeedFile.lines[2],
              [SeedFile.lines[3] EXCEPT ![5] = "abc"] >>)

\* a file whose header names phone_number again in a tenth column, which
\* the first row fills and the second row does not reach
RepeatedNameFile ==
    FileOf(<< HeaderLine \o <<"phone_number">>,
              SeedFile.lines[2] \o <<TEST_PHONE>>,
              SeedFile.lines[3] >>)

InitialFiles ==
    { MissingFile, EmptyFile, SeedFile, HeaderlessFile, CorruptFile,
      RepeatedNameFile }

\* a TransactionHistoryRecord; the beneficiary is the two name fields
JohnMatthews ==
    [phone_number |-> TEST_PHONE, firstname |-> "John",
     lastname |-> "Matthews", country |-> "Colombia", amount |-> 10000,
     payment_method |-> "credit_card", delivery_method |-> "digital_wallet",
     timestamp |-> at(0), confirmation_code |-> "TXN-001"]

\* a transfer of the seeded user
CarlosRecord ==
    [JohnMatthews EXCEPT !.phone_number = MAJOR_CARLOS_PHONE,
                         !.timestamp = at(0 - Days(7))]

\* datetime(2025, 1, 1, tzinfo=timezone.utc)
AwareTimestamp ==
    [at(0) EXCEPT !.tzinfo = <<[sign |-> 1, seconds |-> 0,
                                microseconds |-> 0]>>]

\* the records handed to add_transaction
HistoryRecords ==
    { JohnMatthews,
      [JohnMatthews EXCEPT !.firstname = "Matthews", !.lastname = "John",
                           !.timestamp = at(1),
                           !.confirmation_code = "TXN-002"],
      CarlosRecord,
      [CarlosRecord EXCEPT !.timestamp = AwareTimestamp],
      [JohnMatthews EXCEPT !.phone_number = ""] }

\* the add_transaction calls made on the file f: every record with all its
\* bytes written and with open() raising, and calls whose write raises
\* part way, after 20, 50 and 130 bytes
Writes(f) ==
    { [record |-> r, written |-> n] :
        r \in HistoryRecords, n \in {OpenFails} }
    \cup { [record |-> r, written |-> BytesToAdd(f, r)] :
             r \in HistoryRecords }
    \cup { [record |-> JohnMatthews, written |-> n] :
             n \in {k \in {20, 50, 130} : k < BytesToAdd(f, JohnMatthews)} }

\* the bytes of the seed up to the first half of the 'é' of its second row
HalfAccent ==
    Size(<<HeaderLine, SeedRows(0)[1]>>)
    + Bytes(MAJOR_CARLOS_PHONE \o ",Juan,Perez,M") + 1

\* the bytes of the seed that reach the file in a create_seed_data call:
\* none as open() raises, the first 50, those up to half a character, all
SeedWrites == {OpenFails, 50, HalfAccent, BytesToSeed(0)}

PhoneInputs == {TEST_PHONE, MAJOR_CARLOS_PHONE, "+9999999999"}
FirstnameQueries == {<<>>, <<"">>, <<"john">>}
LastnameQueries == {<<>>, <<"">>, <<"MATTHEWS">>}

\* the names find_beneficiary_history is asked for
NameQueries ==
    { <<firstname, lastname>> :
        firstname \in FirstnameQueries, lastname \in LastnameQueries }
    \ { <<<<>>, <<"">>>>, <<<<"">>, <<>>>>, <<<<"">>, <<"">>>> }

InitHistory ==
    /\ state = EmptyDict
    /\ file \in InitialFiles
    /\ now = 0
    /\ executed = <<>>
    /\ result = EmptyDict
    /\ call = [op |-> "none"]
    /\ IdleEngine

AddTransaction ==
    /\ Len(executed) < MaxAppends
    /\ \E w \in Writes(file) :
        /\ file' = add_transaction(file, w.record, w.written)
        /\ executed' = IF file' # file THEN Append(executed, w.record)
                       ELSE executed
        /\ out' = [op |-> "add_transaction", record |-> w.record,
                   written |-> w.written,
                   complete |-> w.written = BytesToAdd(file, w.record)]
        /\ UNCHANGED <<state, now, result, call, tracker, limits, wrapper>>

CreateSeedData ==
    \E written \in SeedWrites :
        /\ file' = create_seed_data(file, now, written)
        /\ out' = [op |-> "create_seed_data", written |-> written]
        /\ UNCHANGED <<state, now, executed, result, call, tracker, limits,
                       wrapper>>

LoadAll ==
    /\ out' = [op |-> "load_all"] @@ load_all(file)
    /\ UNCHANGED <<toolVars, tracker, limits, wrapper>>

\* get_user_transactions(file, phone_number); the file is read once for
\* all the phone numbers tried
GetUserTransactions ==
    \E all_records \in {load_all(file)} :
      \E phone_number \in PhoneInputs :
        /\ out' = [op |-> "get_user_transactions",
                   phone_number |-> phone_number]
                  @@ user_records(all_records, phone_number)
        /\ UNCHANGED <<toolVars, tracker, limits, wrapper>>

\* find_beneficiary_history(file, phone_number, firstname, lastname); the
\* file is read once for all the arguments tried, and the records of a
\* user are taken from it once for all the names tried
FindBeneficiaryHistory ==
    \E all_records \in {load_all(file)} :
      \E phone_number \in PhoneInputs :
        \E user_txns \in {user_records(all_records, phone_number)} :
          \E names \in NameQueries :
            /\ out' = [op |-> "find_beneficiary_history",
                       phone_number |-> phone_number, firstname |-> names[1],
                       lastname |-> names[2]]
                      @@ matching(user_txns, names[1], names[2])
            /\ UNCHANGED <<toolVars, tracker, limits, wrapper>>

NextHistory ==
    \/ AddTransaction
    \/ CreateSeedData
    \/ LoadAll
    \/ GetUserTransactions
    \/ FindBeneficiaryHistory

SpecHistory == InitHistory /\ [][NextHistory]_vars

-----------------------------------------------------------------------------
(* The retry wrapper around the model call (agent.py)                      *)
(*                                                                         *)
(* wrapper.pc is the position of one call of patched_generate_content_async:*)
(* "attempt" inside the async for over the wrapped generator, "sleeping"   *)
(* inside the except block, "done" after the return, "raised" after an     *)
(* exception left the wrapper.  issued, slept and outcomes are history     *)
(* fields: the requests handed to the wrapped call, the sleeps done, and   *)
(* how each attempt ended.                                                 *)

\* range(60, 0, -1): the one-second sleeps of one wait
WAIT_SECONDS == 60

RESOURCE_EXHAUSTED == "_ResourceExhaustedError"
OtherExceptions == {"ValueError", "ServerError"}
Requests == {"request-1", "request-2"}
Responses == {"A", "B"}

\* the call of the wrapper: the while loop is entered and the wrapped
\* generator is called with the wrapper's own arguments
patched_generate_content_async(request) ==
    [NoCall EXCEPT !.pc = "attempt", !.request = request,
                   !.issued = <<request>>]

\* the wrapped generator produced a response: 'yield response'
yield_response(w, response) ==
    [w EXCEPT !.produced = Append(@, response),
              !.delivered = Append(@, response)]

\* the wrapped generator ended: 'return'
completed(w) ==
    [w EXCEPT !.pc = "done", !.outcomes = Append(@, "completed")]

\* the except block giving up on the second rate-limit error
resource_exhausted_gives_up(w) ==
    IF Len(w.issued) >= 2
    THEN [w EXCEPT !.pc = "raised", !.error = <<RESOURCE_EXHAUSTED>>,
                   !.outcomes = Append(@, RESOURCE_EXHAUSTED)]
    ELSE [w EXCEPT !.pc = "sleeping", !.remaining = WAIT_SECONDS,
                   !.outcomes = Append(@, RESOURCE_EXHAUSTED)]

\* the wrapped generator raised _ResourceExhaustedError: the except block
\* is entered and the countdown starts
resource_exhausted(w) ==
    [w EXCEPT !.pc = "sleeping", !.remaining = WAIT_SECONDS,
              !.outcomes = Append(@, RESOURCE_EXHAUSTED)]

\* the wrapped generator raised another exception, which no except clause
\* catches
other_exception(w, e) ==
    [w EXCEPT !.pc = "raised", !.error = <<e>>, !.outcomes = Append(@, e)]

\* one pass of the countdown loop: 'await asyncio.sleep(1)'
sleep(w) ==
    [w EXCEPT !.remaining = @ - 1, !.slept = @ + 1]

\* the countdown is over: the while loop calls the wrapped generator again
\* with the same arguments, and its responses start afresh
retry(w) ==
    [w EXCEPT !.pc = "attempt", !.issued = Append(@, w.request),
              !.produced = <<>>]

\* rate-limit errors raised so far within the call
Exhausted(w) ==
    Cardinality({i \in 1..Len(w.outcomes) : w.outcomes[i] = RESOURCE_EXHAUSTED})

InitRetry ==
    /\ IdleTools
    /\ tracker = NoTracker
    /\ limits = TransferLimits(float(0), float(0), float(0))
    /\ out = [op |-> "generate_content_async"]
    /\ \E request \in Requests :
          wrapper = patched_generate_content_async(request)

Respond ==
    /\ wrapper.pc = "attempt"
    /\ Len(wrapper.produced) < MaxResponses
    /\ \E response \in Responses :
          wrapper' = yield_response(wrapper, response)
    /\ UNCHANGED <<toolVars, tracker, limits, out>>

Complete ==
    /\ wrapper.pc = "attempt"
    /\ wrapper' = completed(wrapper)
    /\ UNCHANGED <<toolVars, tracker, limits, out>>

ResourceExhausted ==
    /\ wrapper.pc = "attempt"
    /\ Exhausted(wrapper) < MaxAttempts
    /\ wrapper' = resource_exhausted(wrapper)
    /\ UNCHANGED <<toolVars, tracker, limits, out>>

OtherException ==
    /\ wrapper.pc = "attempt"
    /\ \E e \in OtherExceptions : wrapper' = other_exception(wrapper, e)
    /\ UNCHANGED <<toolVars, tracker, limits, out>>

Sleep ==
    /\ wrapper.pc = "sleeping"
    /\ wrapper.remaining > 0
    /\ wrapper' = sleep(wrapper)
    /\ UNCHANGED <<toolVars, tracker, limits, out>>

Retry ==
    /\ wrapper.pc = "sleeping"
    /\ wrapper.remaining = 0
    /\ wrapper' = retry(wrapper)
    /\ UNCHANGED <<toolVars, tracker, limits, out>>

NextRetry ==
    \/ Respond
    \/ Complete
    \/ ResourceExhausted
    \/ OtherException
    \/ Sleep
    \/ Retry

SpecRetry == InitRetry /\ [][NextRetry]_vars

-----------------------------------------------------------------------------
(* Vocabulary of the properties                                            *)

\* the session's user, <<>> when nobody is logged in
SessionUser == IF Has(state, "phone_number") THEN <<state.phone_number>> ELSE <<>>

\* the history of the session's user, as a tool would load it
UserHistory ==
    IF SessionUser = <<>> THEN <<>>
    ELSE get_user_transactions(file, SessionUser[1]).ret

\* the tracker a tool would build on that history at the present instant;
\* the engine counts time in ticks
UserTracker ==
    [transactions |-> [i \in 1..Len(UserHistory) |->
                         [UserHistory[i] EXCEPT !.timestamp = TickOf(@)]],
     current_time |-> now]

\* the executed transfers no older than the given number of days
RECURSIVE ExecutedSum(_, _)
ExecutedSum(i, days) ==
    IF i = 0 THEN 0
    ELSE (IF executed[i].timestamp >= now - days * TicksPerDay
          THEN executed[i].amount ELSE 0)
         + ExecutedSum(i - 1, days)

\* the error text states the 0.5 minimum
StatesMinimum(e) ==
    \/ e.kind = "amount_at_least" /\ e.min = MIN_AMOUNT
    \/ e.kind = "value_error" /\ e.msg.kind = "amount_at_least"
                              /\ e.msg.min = MIN_AMOUNT

\* the amounts of the transactions inside a window, added up over the
\* positions of the list
RECURSIVE WindowTotal(_, _, _)
WindowTotal(txns, positions, from) ==
    IF positions = {} THEN 0
    ELSE LET i == CHOOSE p \in positions : TRUE
         IN  (IF txns[i].timestamp < from THEN 0 ELSE txns[i].amount)
             + WindowTotal(txns, positions \ {i}, from)

WindowDays(period) ==
    CASE period = "daily" -> 1
      [] period = "monthly" -> 30
      [] period = "semester" -> 180

\* the transactions of a list that lie inside a window, in list order
InWindow(txns, from) == SelectSeq(txns, LAMBDA t : t.timestamp >= from)

\* the sum of the float amounts of a list before any rounding
RECURSIVE ExactSum(_)
ExactSum(txns) ==
    IF txns = <<>> THEN [c |-> 0, d |-> 0]
    ELSE Plus(ExactSum(Tail(txns)), float(Head(txns).amount))

\* the distance from a double x >= 0.01 to the next one, in the unit of d
Ulp(x) == 100 * 2^(Exponent(x, 0 - 7, 23) + 7)

\* x is a double nearest to the exact value y
Nearest(x, y) ==
    /\ x.c = y.c
    /\ \/ x = y
       \/ /\ AtLeastPow2(x, 0 - 7)
          /\ 2 * (IF x.d < y.d THEN y.d - x.d ELSE x.d - y.d) <= Ulp(x)

\* the amount in whole cents that a float stands for
Cents(x) == x.c

\* a headroom in cents as the reason text prints it
Printed(cents) ==
    [negative |-> cents < 0, cents |-> IF cents < 0 THEN 0 - cents ELSE cents]

\* the headroom of each window in cents
Headroom(l) ==
    [daily |-> Cents(l.daily_limit) - Cents(l.daily_used),
     monthly |-> Cents(l.monthly_limit) - Cents(l.monthly_used),
     semester |-> Cents(l.semester_limit) - Cents(l.semester_used)]

\* the snapshot the last engine call decided on
DecidedOn ==
    IF out.op = "check_limits" THEN get_current_limits(tracker) ELSE limits

IsDecision == out.op \in {"can_transfer", "check_limits"}

-----------------------------------------------------------------------------
(* Properties                                                              *)

\* C1: at every instant the amounts of the user's successfully executed
\* transfers add up to at most DAILY_LIMIT over the trailing day, at most
\* MONTHLY_LIMIT over the trailing 30 days and at most SEMESTER_LIMIT over
\* the trailing 180 days.
C1_ExecutedWithinCaps ==
    /\ ExecutedSum(Len(executed), 1) <= DAILY_LIMIT
    /\ ExecutedSum(Len(executed), 30) <= MONTHLY_LIMIT
    /\ ExecutedSum(Len(executed), 180) <= SEMESTER_LIMIT

\* C2: set_amount with an amount inside [MIN_AMOUNT, DAILY_LIMIT] that the
\* user's history makes inadmissible returns success=false with an error
\* carrying the engine's reason and the remaining daily and monthly figures,
\* and does not write state['amount'].
C2_SetAmountReportsLimit ==
    [][ ( /\ call'.op = "set_amount"
          /\ call'.amount >= MIN_AMOUNT
          /\ call'.amount <= DAILY_LIMIT
          /\ ~check_limits(UserTracker, call'.amount).ok )
        => ( /\ result'.success = FALSE
             /\ Has(result'.error, "reason")
             /\ result'.error.reason = check_limits(UserTracker, call'.amount).reason[1]
             /\ Has(result'.error, "remaining_daily")
             /\ result'.error.remaining_daily
                  = daily_remaining(get_current_limits(UserTracker))
             /\ Has(result'.error, "remaining_monthly")
             /\ result'.error.remaining_monthly
                  = monthly_remaining(get_current_limits(UserTracker))
             /\ Has(state', "amount") = Has(state, "amount")
             /\ (Has(state, "amount") => state'.amount = state.amount) ) ]_vars

\* C3: every successful transfer_money appends exactly one record to the
\* History Store: after n successful transfers the store holds exactly n
\* more records than before, and get_user_transactions for the user returns
\* a record for each of them.
C3_TransferAppendsRecord ==
    /\ Len(load_all(file).ret) = Len(load_all(SeedFile).ret) + Len(executed)
    /\ \A i \in 1..Len(executed) :
          \E j \in 1..Len(UserHistory) :
             /\ UserHistory[j].amount = executed[i].amount
             /\ UserHistory[j].timestamp = at(executed[i].timestamp)

\* C4: a rejected transfer_money call leaves the session state and the
\* History Store exactly as they were before the call.
C4_RejectedTransferChangesNothing ==
    [][ (call'.op = "transfer_money" /\ ~result'.success)
        => (state' = state /\ file' = file) ]_vars

\* C4 witness: a transfer was rejected in a session that holds staged values
C4_Witness ==
    /\ call.op = "transfer_money"
    /\ ~result.success
    /\ call.args.country = "France"
    /\ Has(state, "country")
    /\ Has(state, "last_transfer_confirmation")

\* C5: can_transfer, and check_limits on the snapshot built from the
\* tracker, admits with no reason exactly when the amount is at most
\* limit - used in all three windows (an amount equal to the headroom of a
\* window is admitted), and rejects with a reason otherwise.
C5_AdmitsIffHeadroom ==
    IsDecision =>
        LET h == Headroom(DecidedOn)
            fits == /\ out.amount <= h.daily
                    /\ out.amount <= h.monthly
                    /\ out.amount <= h.semester
        IN  /\ out.ret.ok = fits
            /\ out.ret.ok => out.ret.reason = <<>>
            /\ ~out.ret.ok => out.ret.reason # <<>>

\* C6: a rejection names the first violated window in the order daily,
\* monthly, semester, with that window's remaining headroom.
C6_FirstViolatedWindow ==
    (IsDecision /\ ~out.ret.ok) =>
        LET h == Headroom(DecidedOn)
            first == IF out.amount > h.daily THEN "daily"
                     ELSE IF out.amount > h.monthly THEN "monthly"
                     ELSE IF out.amount > h.semester THEN "semester"
                     ELSE "none"
            r == out.ret.reason[1]
        IN  /\ r.window = first
            /\ r.remaining = Printed(h[r.window])

\* C7: calculate_period_usage returns exactly the sum of the amounts of the
\* transactions with timestamp >= now - W, W being 1, 30 and 180 days for
\* daily, monthly and semester: the float it returns is a double nearest
\* to the sum of those amounts, and to the cent it is their sum.
C7_UsageIsWindowSum ==
    (out.op = "calculate_period_usage" /\ out.period \in PERIODS) =>
        LET from == tracker.current_time - WindowDays(out.period) * TicksPerDay
        IN  /\ Has(out.ret, "total")
            /\ Nearest(out.ret.total,
                       ExactSum(InWindow(tracker.transactions, from)))
            /\ Cents(out.ret.total)
                  = WindowTotal(tracker.transactions,
                                1..Len(tracker.transactions), from)

\* C7 witness: the daily usage of a list holding one transaction exactly at
\* the cutoff and one older than it is the amount of the first
C7_Witness ==
    /\ out.op = "calculate_period_usage"
    /\ out.period = "daily"
    /\ Len(tracker.transactions) = 2
    /\ tracker.transactions[1].timestamp = tracker.current_time - TicksPerDay
    /\ tracker.transactions[2].timestamp < tracker.current_time - TicksPerDay
    /\ out.ret.total = float(tracker.transactions[1].amount)

\* C8: set_amount with MIN_AMOUNT <= amount <= DAILY_LIMIT for a user whose
\* history is empty returns success=true echoing the amount and writes
\* state['amount'] = amount.
C8_SetAmountAcceptsInBounds ==
    ( /\ call.op = "set_amount"
      /\ call.amount >= MIN_AMOUNT
      /\ call.amount <= DAILY_LIMIT
      /\ SessionUser # <<>>
      /\ UserHistory = <<>> )
    => ( /\ result.success
         /\ result.amount = call.amount
         /\ Has(state, "amount")
         /\ state.amount = call.amount )

\* C9: set_amount with an amount below MIN_AMOUNT returns success=false with
\* an error that states the 0.5 minimum, and state['amount'] is not set: an
\* absent amount stays absent, a staged amount stays as it was.
C9_BelowMinimumRejected ==
    [][ (call'.op = "set_amount" /\ call'.amount < MIN_AMOUNT)
        => ( /\ result'.success = FALSE
             /\ StatesMinimum(result'.error)
             /\ Has(state', "amount") = Has(state, "amount")
             /\ (Has(state, "amount") => state'.amount = state.amount) ) ]_vars

\* C9 witness: an amount below the minimum was refused while another amount
\* was staged
C9_Witness ==
    /\ call.op = "set_amount"
    /\ call.amount < MIN_AMOUNT
    /\ ~result.success
    /\ Has(state, "amount")

\* C10: no two successful transfers receive the same confirmation code.
C10_CodesUnique ==
    \A i, j \in 1..Len(executed) :
        i # j => executed[i].confirmation_code # executed[j].confirmation_code

\* the supported countries equal to the input when letter case is ignored
SameIgnoringCase(country) ==
    {c \in {SUPPORTED_COUNTRIES[i] : i \in 1..Len(SUPPORTED_COUNTRIES)} :
        Lower(c) = Lower(country)}

\* C11: set_country resolves its input against the supported countries
\* ignoring letter case: an input that matches one is accepted, and
\* state['country'] and the returned country are that country in its
\* canonical spelling, never the caller's spelling; an input that matches
\* none is rejected.
C11_CountryCanonical ==
    call.op = "set_country" =>
        /\ result.success = (SameIgnoringCase(call.country) # {})
        /\ result.success =>
              /\ Has(state, "country")
              /\ state.country \in SameIgnoringCase(call.country)
              /\ result.country = state.country
              /\ InList(state.country, SUPPORTED_COUNTRIES)

\* C11 witness: a country given in another letter case was stored in its
\* canonical spelling
C11_Witness ==
    /\ call.op = "set_country"
    /\ call.country = "COLOMBIA"
    /\ result.success
    /\ state.country = "Colombia"

\* the setter tools and the keys of the session state each one writes
SetterOps ==
    {"set_country", "set_amount", "set_beneficiary", "set_payment_method",
     "set_delivery_method"}

OwnKeys(op) ==
    CASE op = "set_country" -> {"country"}
      [] op = "set_amount" -> {"amount"}
      [] op = "set_beneficiary" ->
            {"beneficiary_firstname", "beneficiary_lastname"}
      [] op = "set_payment_method" -> {"payment_method"}
      [] op = "set_delivery_method" -> {"delivery_method"}
      [] OTHER -> {}

StagedKeys == UNION {OwnKeys(op) : op \in SetterOps}

\* the value under a key of a dict: <<v>>, or <<>> when the key is absent
Staged(d, k) == IF Has(d, k) THEN <<d[k]>> ELSE <<>>

\* the value a call of a setter asks to stage under one of its keys
Asked(c, k) ==
    CASE k = "country" -> CHOOSE x \in SameIgnoringCase(c.country) : TRUE
      [] k = "amount" -> c.amount
      [] k = "beneficiary_firstname" -> c.firstname
      [] k = "beneficiary_lastname" -> c.lastname
      [] k = "payment_method" -> c.payment_method
      [] k = "delivery_method" -> c.delivery_method

\* C12: a setter that rejects its input returns {success: false, error}
\* and leaves the whole session state as it was before the call, a staged
\* value of the same field included.
C12_RejectedSetterChangesNothing ==
    [][ (call'.op \in SetterOps /\ ~result'.success)
        => ( /\ DOMAIN result' = {"success", "error"}
             /\ result'.success = FALSE
             /\ state' = state ) ]_vars

\* C12 witness: set_beneficiary was rejected while a beneficiary was staged
C12_Witness ==
    /\ call.op = "set_beneficiary"
    /\ ~result.success
    /\ Has(state, "beneficiary_firstname")
    /\ Has(state, "beneficiary_lastname")

\* C13: a successful setter call changes only its own key(s) of the session
\* state; every other key keeps its value (an absent key stays absent) and
\* the History Store is unchanged.
C13_SetterFrame ==
    [][ (call'.op \in SetterOps /\ result'.success)
        => ( /\ \A k \in (DOMAIN state \cup DOMAIN state') \ OwnKeys(call'.op) :
                    Staged(state', k) = Staged(state, k)
             /\ file' = file ) ]_vars

\* C13 witness: set_payment_method succeeded in a session holding a phone
\* number, a country and a delivery method
C13_Witness ==
    /\ call.op = "set_payment_method"
    /\ result.success
    /\ Has(state, "phone_number")
    /\ Has(state, "country")
    /\ Has(state, "delivery_method")

\* C14: a staged field can be overwritten any number of times: a successful
\* call of a field's setter leaves the field holding the canonicalised value
\* of that call, whatever was staged before, and every other step (a
\* rejected call, a call of another tool) leaves the field as it was; so
\* each field holds the value of the most recent successful call of its
\* setter.
C14_LastSuccessfulWins ==
    [][ \A k \in StagedKeys :
          IF k \in OwnKeys(call'.op) /\ result'.success
          THEN Staged(state', k) = <<Asked(call', k)>>
          ELSE Staged(state', k) = Staged(state, k) ]_vars

\* C14 witness: the country staged when the session began was overwritten,
\* and a later rejected call left the overwriting value in place
C14_Witness ==
    /\ Staged(state, "amount") = <<10000>>
    /\ call.op = "set_country"
    /\ ~result.success
    /\ Staged(state, "country") = <<"Colombia">>

\* Beneficiary and Transaction can be constructed from the arguments
Constructible(a) ==
    /\ a.firstname # "" /\ a.lastname # ""
    /\ InList(a.country, SUPPORTED_COUNTRIES)
    /\ a.amount >= MIN_AMOUNT /\ a.amount <= DAILY_LIMIT
    /\ InList(a.payment_method, PAYMENT_METHODS)
    /\ InList(a.delivery_method, DELIVERY_METHODS)

\* C20: transfer_money accepts or rejects on its six arguments alone: in
\* every session state the call succeeds exactly when Beneficiary and
\* Transaction can be constructed from the arguments, and the same arguments
\* get the same outcome from any other session state, the empty one
\* included.
C20_DecisionFromArgumentsOnly ==
    call.op = "transfer_money" =>
        /\ result.success = Constructible(call.args)
        /\ \A st \in InitialStates \cup {state}, token \in Tokens :
              transfer_money(st, call.args.firstname, call.args.lastname,
                             call.args.country, call.args.amount,
                             call.args.payment_method,
                             call.args.delivery_method, token).result.success
                = result.success

\* C20 witness: a transfer succeeded in a session whose staged country and
\* amount differ from the arguments
C20_Witness ==
    /\ call.op = "transfer_money"
    /\ result.success
    /\ Has(state, "country") /\ state.country # call.args.country
    /\ Has(state, "amount") /\ state.amount # call.args.amount

\* C19: Transaction construction succeeds exactly when the country is one
\* of the supported countries in its canonical spelling, the amount lies in
\* [MIN_AMOUNT, DAILY_LIMIT] with both bounds accepted, the payment method
\* is credit_card, debit_card or bank_transfer and the delivery method is
\* digital_wallet or bank_account; otherwise construction raises a
\* validation error and there is no object.
C19_TransactionConstruction ==
    out.op = "Transaction" =>
        LET valid ==
              /\ out.country \in {"México", "Guatemala", "Honduras",
                                   "El Salvador", "República Dominicana",
                                   "Colombia"}
              /\ out.amount >= 50 /\ out.amount <= 150000
              /\ out.payment_method
                    \in {"credit_card", "debit_card", "bank_transfer"}
              /\ out.delivery_method \in {"digital_wallet", "bank_account"}
        IN  /\ valid =>
                 /\ ~Has(out.ret, "raises")
                 /\ out.ret.country = out.country
                 /\ out.ret.amount = out.amount
                 /\ out.ret.payment_method = out.payment_method
                 /\ out.ret.delivery_method = out.delivery_method
            /\ ~valid =>
                 /\ DOMAIN out.ret = {"raises", "errors"}
                 /\ out.ret.raises = "ValidationError"
                 /\ out.ret.errors # <<>>

\* C19 witness: a Transaction was constructed with the amount exactly at
\* the minimum
C19_Witness ==
    /\ out.op = "Transaction"
    /\ out.amount = MIN_AMOUNT
    /\ ~Has(out.ret, "raises")
    /\ out.ret.amount = MIN_AMOUNT

\* a is a prefix of b
IsPrefix(a, b) == Len(a) <= Len(b) /\ SubSeq(b, 1, Len(a)) = a

\* how many times r occurs in a sequence
Count(seq, r) == Cardinality({i \in 1..Len(seq) : seq[i] = r})

\* the file holds whole lines only: missing, empty, or written by calls
\* that completed
Whole(f) == ~f.open /\ ~f.torn

\* a line that load_all turns into a record, in a file that begins with
\* the schema header
ValidRow(line) ==
    /\ Len(line) >= Len(headers)
    /\ line[1] # ""
    /\ line[2] # "" /\ line[3] # ""
    /\ IsFloatText(line[5])
    /\ fromisoformat(line[8]).ok

\* a missing file, an empty file, or the schema header and valid records
ValidStore(f) ==
    /\ Whole(f)
    /\ f.lines # <<>> =>
          /\ f.lines[1] = HeaderLine
          /\ \A i \in 2..Len(f.lines) : ValidRow(f.lines[i])

\* C15: the History Store is append-only: over every step that changes the
\* file the records load_all returned before are a prefix of the records
\* it returns after, so no record is reordered, changed or removed; a
\* written record equal to one already stored is stored once more; and a
\* write to a store that does not exist creates it with the schema header
\* first.
C15_AppendOnly ==
    [][ LET before == load_all(file).ret
            after == load_all(file').ret
        IN  /\ file' # file => IsPrefix(before, after)
            /\ (out'.op = "add_transaction" /\ out'.complete) =>
                  /\ file'.exists
                  /\ file'.lines # <<>>
                  /\ ~file.exists =>
                        /\ file'.lines[1] = HeaderLine
                        /\ Len(file'.lines) = 2
                  /\ Count(before, out'.record) > 0 =>
                        Count(after, out'.record)
                          = Count(before, out'.record) + 1 ]_vars

\* C16: a completed add_transaction(r) on a store that was missing, empty
\* or held valid records leaves a store of which load_all returns a
\* sequence whose last element equals r in every field, the timestamp
\* included.
C16_RoundTrip ==
    [][ ( /\ out'.op = "add_transaction"
          /\ out'.complete
          /\ file' # file
          /\ ValidStore(file) ) =>
            /\ load_all(file').ret # <<>>
            /\ load_all(file').ret[Len(load_all(file').ret)] = out'.record ]_vars

\* C17: get_user_transactions(user) returns exactly the records of
\* load_all whose phone_number equals user, each as many times as load_all
\* holds it and no record of another user, ordered by timestamp descending.
C17_UserTransactions ==
    out.op = "get_user_transactions" =>
        /\ Has(out, "ret")
        /\ LET all == load_all(file).ret
               ret == out.ret
           IN  /\ \A r \in Range(all) \cup Range(ret) :
                     Count(ret, r) = IF r.phone_number = out.phone_number
                                     THEN Count(all, r) ELSE 0
               /\ \A i, j \in 1..Len(ret) :
                     i < j => ~before_dt(ret[i].timestamp, ret[j].timestamp)

\* C18: find_beneficiary_history with a non-empty firstname returns the
\* subsequence, in the same order, of get_user_transactions(user) whose
\* beneficiary firstname equals firstname ignoring case and, when a
\* lastname is supplied, whose beneficiary lastname equals lastname ignoring
\* case; the two names are not interchangeable.
C18_BeneficiaryHistory ==
    (out.op = "find_beneficiary_history" /\ ~Falsy(out.firstname)) =>
        LET Matches(t) ==
              /\ Lower(t.firstname) = Lower(out.firstname[1])
              /\ ~Falsy(out.lastname) =>
                    Lower(t.lastname) = Lower(out.lastname[1])
            source == get_user_transactions(file, out.phone_number)
        IN  /\ Has(out, "ret")
            /\ Has(source, "ret")
            /\ out.ret = SelectSeq(source.ret, Matches)

\* a row that load_all does not skip and cannot turn into a record
BadRow(line) == line[1] # "" /\ ~ValidRow(line)

\* the row read under a header that names phone_number again in a tenth
\* column: the phone number is the tenth cell
TenthAsPhone(line) == [line EXCEPT ![1] = line[10]]

\* C21: load_all never fails its caller: of every file it returns a
\* sequence and raises nothing.  When the file is missing, empty, has no
\* header (its first line lacks a name of the schema) or holds content that
\* cannot be parsed into records (under the schema header a row that is no
\* record; an end within a character), the sequence is empty.  Of any
\* other file under the schema header it holds one record for each row that
\* has a phone_number.  Under a header that repeats phone_number in a tenth
\* column the rows that do not reach that column are skipped and the others
\* are read with the tenth cell for the phone number.  No record returned
\* is without a phone number.
C21_LoadAllNeverFails ==
    out.op = "load_all" =>
        LET unreadable ==
              \/ ~file.exists
              \/ file.lines = <<>>
              \/ file.torn
              \/ ~(Range(headers) \subseteq Range(file.lines[1]))
              \/ /\ file.lines[1] = HeaderLine
                 /\ \E i \in 2..Len(file.lines) : BadRow(file.lines[i])
            reach == {i \in 2..Len(file.lines) :
                        Len(file.lines[i]) >= 10 /\ file.lines[i][10] # ""}
        IN  /\ Has(out, "ret")
            /\ ~Has(out, "raises")
            /\ unreadable => out.ret = <<>>
            /\ (~unreadable /\ file.lines[1] = HeaderLine) =>
                  Len(out.ret) = Len(SelectSeq(Tail(file.lines), ValidRow))
            /\ (~unreadable /\ file.lines[1] = RepeatedNameFile.lines[1]) =>
                  IF \E i \in reach : ~ValidRow(TenthAsPhone(file.lines[i]))
                  THEN out.ret = <<>>
                  ELSE /\ Len(out.ret) = Cardinality(reach)
                       /\ \A j \in 1..Len(out.ret) :
                             \E i \in reach :
                                out.ret[j].phone_number = file.lines[i][10]
            /\ \A j \in 1..Len(out.ret) : out.ret[j].phone_number # ""

\* C21 witness: the file holds the header, a valid row and the first
\* bytes of a row whose write failed; reading it raised, and load_all
\* returned the empty sequence
C21_Witness ==
    /\ out.op = "load_all"
    /\ file.open
    /\ Len(file.lines) >= 3
    /\ file.lines[1] = HeaderLine
    /\ ValidRow(file.lines[2])
    /\ BadRow(file.lines[Len(file.lines)])
    /\ Has(read_records(file), "raises")
    /\ Has(out, "ret")
    /\ out.ret = <<>>

\* C23: find_beneficiary_history with an empty or absent firstname returns
\* the empty sequence for every history and every user, also when the
\* lastname supplied matches stored records.
C23_NoFirstnameNoResult ==
    ( /\ out.op = "find_beneficiary_history"
      /\ (out.firstname = <<>> \/ out.firstname = <<"">>) )
    => (Has(out, "ret") /\ out.ret = <<>>)

\* C22: window nesting: for transactions with non-negative amounts and any
\* instant, the semester usage is at least the monthly usage, which is at
\* least the daily usage, both as calculate_period_usage returns them and
\* as get_current_limits reports them.
C22_WindowNesting ==
    /\ (\A i \in 1..Len(tracker.transactions) :
            tracker.transactions[i].amount >= 0)
       => LET usage(period) ==
                calculate_period_usage(tracker.transactions,
                                       tracker.current_time, period).total
          IN  /\ ~fless(usage("semester"), usage("monthly"))
              /\ ~fless(usage("monthly"), usage("daily"))
    /\ out.op = "get_current_limits" =>
          /\ ~fless(out.ret.semester_used, out.ret.monthly_used)
          /\ ~fless(out.ret.monthly_used, out.ret.daily_used)

\* C22 witness: get_current_limits reported three different figures, the
\* wider window the larger
C22_Witness ==
    /\ out.op = "get_current_limits"
    /\ Len(tracker.transactions) >= 2
    /\ fless(out.ret.monthly_used, out.ret.semester_used)
    /\ fless(out.ret.daily_used, out.ret.monthly_used)

\* C24: get_current_limits is idempotent: with the transactions and the
\* instant unchanged it returns figures that depend on the tracker alone,
\* identical from one call to the next; and neither get_current_limits nor
\* check_limits changes the tracker or its transaction list.
C24_GetCurrentLimitsIdempotent ==
    [][ /\ out'.op \in {"get_current_limits", "check_limits"}
            => tracker' = tracker
        /\ out'.op = "get_current_limits" =>
              /\ out.op = "get_current_limits" => out'.ret = out.ret
              /\ out'.ret.daily_used
                    = sum(Amounts(InWindow(tracker.transactions,
                                        tracker.current_time - TicksPerDay)))
              /\ out'.ret.monthly_used
                    = sum(Amounts(InWindow(tracker.transactions,
                                        tracker.current_time - 30 * TicksPerDay)))
              /\ out'.ret.semester_used
                    = sum(Amounts(InWindow(tracker.transactions,
                                        tracker.current_time - 180 * TicksPerDay))) ]_vars

\* C24 witness: get_current_limits returned the usage of a tracker that
\* holds transactions, after add_transfer had changed an earlier snapshot
C24_Witness ==
    /\ out.op = "get_current_limits"
    /\ tracker.transactions # <<>>
    /\ fless(float(0), out.ret.daily_used)
    /\ limits = out.ret

\* C25: add_transfer(amount) raises daily_used, monthly_used and
\* semester_used each by exactly amount (the float sum of the two, which to
\* the cent is their sum), leaves the three ceilings as they
\* were, and changes neither the transaction list the snapshot was computed
\* from nor the History Store.
C25_AddTransfer ==
    [][ out'.op = "add_transfer" =>
          /\ limits'.daily_used = fadd(limits.daily_used, float(out'.amount))
          /\ limits'.monthly_used = fadd(limits.monthly_used, float(out'.amount))
          /\ limits'.semester_used
                = fadd(limits.semester_used, float(out'.amount))
          /\ Cents(limits'.daily_used) = Cents(limits.daily_used) + out'.amount
          /\ Cents(limits'.monthly_used)
                = Cents(limits.monthly_used) + out'.amount
          /\ Cents(limits'.semester_used)
                = Cents(limits.semester_used) + out'.amount
          /\ limits'.daily_limit = limits.daily_limit
          /\ limits'.monthly_limit = limits.monthly_limit
          /\ limits'.semester_limit = limits.semester_limit
          /\ tracker' = tracker
          /\ file' = file ]_vars

\* C25 witness: add_transfer was applied to the snapshot computed from a
\* tracker whose windows hold different amounts
C25_Witness ==
    /\ out.op = "add_transfer"
    /\ tracker.transactions # <<>>
    /\ limits = add_transfer(get_current_limits(tracker), out.amount)
    /\ fless(limits.daily_used, limits.semester_used)
    /\ fless(float(out.amount), limits.daily_used)

\* C26: calculate_period_usage with a period other than daily, monthly or
\* semester fails with the invalid-period error and returns no total, for
\* every transaction list, the empty one included.
C26_InvalidPeriod ==
    (out.op = "calculate_period_usage" /\ out.period \notin PERIODS) =>
        /\ DOMAIN out.ret = {"raises", "period"}
        /\ out.ret.period = out.period

\* C26 witness: the period "weekly" was refused on an empty transaction
\* list
C26_Witness ==
    /\ out.op = "calculate_period_usage"
    /\ out.period = "weekly"
    /\ tracker.transactions = <<>>
    /\ Has(out.ret, "raises")

\* the draft keys of the session state
DraftKeys == {"phone_number"} \cup StagedKeys

\* C27: a successful transfer_money writes last_transfer_confirmation (the
\* confirmation code it returns), last_transfer_amount (the amount
\* argument) and last_transfer_beneficiary (firstname, a space, lastname)
\* into the session state and leaves every draft key as it was.
C27_TransferBookkeeping ==
    [][ (call'.op = "transfer_money" /\ result'.success) =>
          /\ Staged(state', "last_transfer_confirmation")
                = <<result'.confirmation_code>>
          /\ Staged(state', "last_transfer_amount") = <<call'.args.amount>>
          /\ Staged(state', "last_transfer_beneficiary")
                = << <<call'.args.firstname, " ", call'.args.lastname>> >>
          /\ \A k \in DraftKeys : Staged(state', k) = Staged(state, k) ]_vars

\* C27 witness: a transfer succeeded in a session holding a phone number
\* and a staged country, beneficiary and payment method
C27_Witness ==
    /\ call.op = "transfer_money"
    /\ result.success
    /\ Has(state, "phone_number")
    /\ Has(state, "country")
    /\ Has(state, "beneficiary_firstname")
    /\ Has(state, "payment_method")
    /\ state.last_transfer_confirmation = result.confirmation_code

\* C28: after any sequence of setter and transfer_money calls every staged
\* field present in the session state is valid: the country is a supported
\* country in canonical casing, the amount lies in [MIN_AMOUNT,
\* DAILY_LIMIT], the payment and delivery methods are supported ones, and
\* the two beneficiary names are both absent or both present, non-empty
\* and the names of one and the same call; a further call of
\* set_beneficiary from the state reached either stages exactly its own two
\* names or stages nothing.
C28_StagedFieldsValid ==
    /\ Has(state, "country") => InList(state.country, SUPPORTED_COUNTRIES)
    /\ Has(state, "amount") =>
          state.amount >= MIN_AMOUNT /\ state.amount <= DAILY_LIMIT
    /\ Has(state, "payment_method") =>
          InList(state.payment_method, PAYMENT_METHODS)
    /\ Has(state, "delivery_method") =>
          InList(state.delivery_method, DELIVERY_METHODS)
    /\ Has(state, "beneficiary_firstname") = Has(state, "beneficiary_lastname")
    /\ Has(state, "beneficiary_firstname") =>
          /\ state.beneficiary_firstname # ""
          /\ state.beneficiary_lastname # ""
          /\ \E a \in BeneficiaryInputs :
                /\ a.firstname = state.beneficiary_firstname
                /\ a.lastname = state.beneficiary_lastname
    /\ \A a \in BeneficiaryInputs \cup {OtherBeneficiary} :
          LET r == set_beneficiary(state, a.firstname, a.lastname)
          IN  IF r.result.success
              THEN /\ Staged(r.state, "beneficiary_firstname") = <<a.firstname>>
                   /\ Staged(r.state, "beneficiary_lastname") = <<a.lastname>>
              ELSE r.state = state

\* C28 witness: a session that began empty holds a country, a beneficiary,
\* a payment method and a delivery method, a transfer was made, and the
\* last call was a set_beneficiary that was rejected
C28_Witness ==
    /\ ~Has(state, "phone_number")
    /\ Has(state, "country")
    /\ Has(state, "beneficiary_firstname")
    /\ Has(state, "payment_method")
    /\ Has(state, "delivery_method")
    /\ Has(state, "last_transfer_confirmation")
    /\ call.op = "set_beneficiary"
    /\ ~result.success

\* C29: the patched generate_content_async never passes a
\* _ResourceExhaustedError on to its caller: after each one it does
\* WAIT_SECONDS one-second sleeps and then hands the same request to the
\* wrapped call again, however many times that happens; it returns only
\* after an attempt that ran to its end, and an exception of another kind
\* leaves the wrapper at once, with no retry.
C29_RetryOnRateLimit ==
    LET n == Exhausted(wrapper)
        last == wrapper.outcomes[Len(wrapper.outcomes)]
    IN  /\ wrapper.error # <<RESOURCE_EXHAUSTED>>
        /\ \A i \in 1..Len(wrapper.issued) :
              wrapper.issued[i] = wrapper.request
        /\ wrapper.pc = "sleeping" =>
              /\ last = RESOURCE_EXHAUSTED
              /\ Len(wrapper.issued) = n
              /\ wrapper.slept = WAIT_SECONDS * n - wrapper.remaining
        /\ wrapper.pc = "attempt" =>
              /\ Len(wrapper.outcomes) = n
              /\ Len(wrapper.issued) = n + 1
              /\ wrapper.slept = WAIT_SECONDS * n
        /\ wrapper.pc = "done" =>
              /\ last = "completed"
              /\ wrapper.error = <<>>
              /\ Len(wrapper.outcomes) = n + 1
              /\ Len(wrapper.issued) = n + 1
              /\ wrapper.slept = WAIT_SECONDS * n
        /\ wrapper.pc = "raised" =>
              /\ last \in OtherExceptions
              /\ wrapper.error = <<last>>
              /\ Len(wrapper.outcomes) = n + 1
              /\ Len(wrapper.issued) = n + 1
              /\ wrapper.slept = WAIT_SECONDS * n

\* C29 witness: the call returned after two rate-limit errors, two full
\* waits and a third attempt
C29_Witness ==
    /\ wrapper.pc = "done"
    /\ Exhausted(wrapper) = 2
    /\ wrapper.slept = 2 * WAIT_SECONDS
    /\ Len(wrapper.issued) = 3

\* C30: when the call has returned, the responses delivered to the caller
\* are those of the final, successful attempt and no others.
C30_DeliversFinalAttemptOnly ==
    wrapper.pc = "done" => wrapper.delivered = wrapper.produced

====
